---- MODULE Spec2Model ----
(***************************************************************************)
(* A model of the Genesys AudioHook collector service.                     *)
(*                                                                         *)
(*   collector.py            ElasticSink (intake queue, flush workers) and *)
(*                           Runner (the websocket supervisor _ws_loop).   *)
(*   audiohook_collector.py  AudioHookCollector (the streamlined variant). *)
(*                                                                         *)
(* Time is counted in ticks of one second.  A timeout shorter than a tick  *)
(* (the 0.1 s floor of the worker's queue wait) is a wait of zero ticks.   *)
(***************************************************************************)
EXTENDS Integers, Sequences, FiniteSets, TLC

(* ------------------------------ bounds -------------------------------- *)
\* documents that are enqueued in one run
MaxEnq == 2
\* BULK_MAX_DOCS of the run (collector.py:76 reads it from the environment)
BULK_MAX_DOCS == 2
\* BULK_MAX_SECONDS of the run, in ticks (collector.py:77)
BULK_MAX_SECONDS == 1

\* backoff sleeps of the supervisor in one run
MaxSleeps == 2
\* consecutive failed connection attempts whose delays are followed
MaxFailures == 8

(* ------------------------- program constants -------------------------- *)
\* the defaults of RETRY_BASE_SLEEP and RETRY_MAX_SLEEP, in microseconds
RETRY_BASE_SLEEP == 1500000
RETRY_MAX_SLEEP == 30000000
\* the default of BULK_CONCURRENCY; a run is configured with 1..BULK_CONCURRENCY workers
BULK_CONCURRENCY == 2

Workers == 1..BULK_CONCURRENCY
DocIds == 1..(IF MaxEnq > BULK_MAX_DOCS THEN MaxEnq ELSE BULK_MAX_DOCS + 1)

VARIABLES
    \* ---- collector.py, ElasticSink
    queue,        \* self.queue: sequence of <<action, source>> pairs
    enq,          \* number of enqueue() calls so far (ids of the documents)
    sink_stop,    \* self.sink.stop_evt
    sinkpc,       \* position of ElasticSink.start
    nworkers,     \* the configured number of flush workers of this run
    wpc,          \* position of each _worker task
    wcancel,      \* Task.cancel() was called and CancelledError is not yet raised
    wfinal,       \* the worker runs the flush of its CancelledError handler
    pending,      \* the worker's pending list of ndjson lines
    elapsed,      \* time.time() - last_flush of the worker, saturating
    sent_docs,    \* self.sent_docs
    errors,       \* self.errors
    docPosts,     \* per document: POST requests whose body held it
    docAnswer,    \* per document: the sink's answer that ended its batch
    wlast,        \* the answer to the first POST of the flush a worker is in ("none": none yet)
    \* ---- collector.py, Runner
    stop_evt,     \* self.stop_evt
    runner_pc,    \* position of Runner.start
    ws_pc,        \* position of the _ws_loop task
    frame,        \* the text frame that _ws_loop has received and not yet handled
    backoff,      \* the local backoff of _ws_loop, in microseconds
    channel_id,   \* self.channel_id (0: None)
    connect_uri,  \* self.connect_uri (0: None); channel c has the address c
    chans,        \* channels the notification service has created so far
    subscribed,   \* the service holds a subscription of the topics for channel_id
    closed,       \* a stream on connect_uri has closed or a connect to it has failed
    sleeps,       \* backoff sleeps of _ws_loop so far
    counters,     \* self.counters
    \* ---- the reconnect delay of either supervisor, taken alone
    bk_prog,      \* "collector" (_ws_loop) or "audiohook" (websocket_loop)
    bk_floor,     \* RETRY_BASE_SLEEP or RECONNECT_DELAY of the run, in microseconds
    bk_ceiling,   \* RETRY_MAX_SLEEP or MAX_RECONNECT_DELAY of the run, in microseconds
    bk_delay,     \* backoff or reconnect_delay
    bk_slept,     \* the delays slept since the last successful connect
    \* ---- the classification predicates, taken alone
    cls_event,    \* the event body
    cls_topic,    \* the topic name of the message
    cls_result,   \* what each predicate returned for them
    \* ---- the resolution of the topics, taken alone
    tp_in,        \* the program, the topics file, the answer of the discovery, AUTO_DISCOVER
    tp_out,       \* whether the topics are resolved, and the topics
    \* ---- the rotation of the output file, taken alone
    rf,           \* BACKUP_COUNT, the files before the call and after it
    \* ---- the startup of either program, taken alone
    st,           \* the settings, the position in the startup, the calls made so far
    \* ---- websocket_loop of audiohook_collector.py, taken alone
    ah,           \* running, ws_url, topics, the subscriptions sent, reconnect_delay
    \* ---- the attempts of _ws_loop
    attempts,     \* calls of ws_connect by _ws_loop so far
    \* ---- which part of the service a run exercises
    part          \* "service", "function", or the part that runs: "sink", "supervisor", ...

queueVars == <<queue, enq>>
workerVars == <<sinkpc, nworkers, wpc, wcancel, wfinal, pending, elapsed,
                sent_docs, errors, docPosts, docAnswer, wlast>>

\* the supervisor's variables
supVars == <<stop_evt, runner_pc, ws_pc, frame, backoff, channel_id, connect_uri,
             chans, subscribed, closed, sleeps, counters>>

\* the variables of the functions that are checked alone
restVars == <<rf, st, ah, attempts>>

fnVars == <<bk_prog, bk_floor, bk_ceiling, bk_delay, bk_slept,
            cls_event, cls_topic, cls_result, tp_in, tp_out, restVars, part>>

\* the variables that the sink's steps leave alone
notSinkVars == <<supVars, fnVars, wlast>>

vars == <<queueVars, sink_stop, workerVars, supVars, fnVars>>

(* ----------------------- strings and JSON values ---------------------- *)

\* a string is the sequence of its characters
LowerCase == <<"a","b","c","d","e","f","g","h","i","j","k","l","m",
               "n","o","p","q","r","s","t","u","v","w","x","y","z">>
UpperCase == <<"A","B","C","D","E","F","G","H","I","J","K","L","M",
               "N","O","P","Q","R","S","T","U","V","W","X","Y","Z">>

LowerChar(c) ==
    IF \E i \in 1..26 : UpperCase[i] = c
    THEN LowerCase[CHOOSE i \in 1..26 : UpperCase[i] = c] ELSE c
UpperChar(c) ==
    IF \E i \in 1..26 : LowerCase[i] = c
    THEN UpperCase[CHOOSE i \in 1..26 : LowerCase[i] = c] ELSE c

\* str.lower(), str.upper()
Lower(s) == [i \in 1..Len(s) |-> LowerChar(s[i])]
Upper(s) == [i \in 1..Len(s) |-> UpperChar(s[i])]

\* t in s
Contains(s, t) ==
    \E i \in 1..(Len(s) - Len(t) + 1) : SubSeq(s, i, i + Len(t) - 1) = t

\* s.startswith(t)
StartsWith(s, t) == Len(s) >= Len(t) /\ SubSeq(s, 1, Len(t)) = t

\* the domain keyword
Keyword == <<"a", "u", "d", "i", "o", "h", "o", "o", "k">>

\* JSON values, tagged with their type
JNull == <<"null">>
JStr(s) == <<"str", s>>
JNum(n) == <<"num", n>>
JList(l) == <<"list", l>>
JObj(f) == <<"obj", f>>
JBool(b) == <<"bool", b>>

IsObj(v) == v[1] = "obj"
IsStr(v) == v[1] = "str"

\* the truth value Python gives a value
Truthy(v) ==
    CASE v[1] = "null" -> FALSE
      [] v[1] = "str"  -> Len(v[2]) > 0
      [] v[1] = "num"  -> v[2] # 0
      [] v[1] = "list" -> Len(v[2]) > 0
      [] v[1] = "obj"  -> DOMAIN v[2] # {}
      [] v[1] = "bool" -> v[2]

\* a or b
PyOr(a, b) == IF Truthy(a) THEN a ELSE b

\* d.get(k) of a dict d
PyGet(d, k) == IF k \in DOMAIN d[2] THEN d[2][k] ELSE JNull

\* str(v) of a string or of a one digit number
PyStr(v) ==
    CASE v[1] = "str" -> v[2]
      [] v[1] = "num" -> <<ToString(v[2])>>

(* ----------------- collector.py, Runner.handle_event ------------------ *)

\* v not in (None, "", [], {})
NonEmpty(v) ==
    ~ \/ v[1] = "null"
      \/ v[1] = "str" /\ Len(v[2]) = 0
      \/ v[1] = "list" /\ Len(v[2]) = 0
      \/ v[1] = "obj" /\ DOMAIN v[2] = {}

\* Runner._extract_first_nonempty
RECURSIVE _extract_first_nonempty(_, _)
_extract_first_nonempty(d, keys) ==
    IF keys = <<>> THEN JNull
    ELSE IF NonEmpty(PyGet(d, Head(keys))) THEN PyGet(d, Head(keys))
    ELSE _extract_first_nonempty(d, Tail(keys))

S_ERROR == <<"E", "R", "R", "O", "R">>
S_CRITICAL == <<"C", "R", "I", "T", "I", "C", "A", "L">>
S_SEVERE == <<"S", "E", "V", "E", "R", "E">>
S_WARN == <<"W", "A", "R", "N">>
S_WARNING == <<"W", "A", "R", "N", "I", "N", "G">>

\* the counter that handle_event increments for the severity sev
SeverityCounter(sev) ==
    IF sev \in {S_ERROR, S_CRITICAL, S_SEVERE} THEN "op_errors"
    ELSE IF sev \in {S_WARN, S_WARNING} THEN "op_warns"
    ELSE "op_infos"

\* the heuristic of handle_event for the AudioHook classification
IsAudioHookHeuristic(code, comp, topic) ==
    \/ Contains(Lower(PyStr(PyOr(code, JStr(<<>>))) \o <<" ">>
                        \o PyStr(PyOr(comp, JStr(<<>>)))), Keyword)
    \/ Contains(Lower(PyOr(topic, JStr(<<>>))[2]), Keyword)

\* the whole message taken as the event
BodyOf_WholeMessage(payload) == payload

\* body = payload.get("eventBody") or payload.get("body") or payload
BodyOf(payload) ==
    PyOr(PyOr(PyGet(payload, "eventBody"), PyGet(payload, "body")), payload)

\* handle_event(payload) while self.channel_id is chan: whether it raises, and
\* if not the classification, the severity and the document it enqueues
HandleEventResult(payload, chan) ==
    IF ~IsObj(payload) THEN [raised |-> TRUE]     \* payload.get: AttributeError
    ELSE
    LET topic == PyOr(PyGet(payload, "topicName"), PyGet(payload, "topic"))
        body  == BodyOf(payload)
        ev    == IF IsObj(body) THEN body ELSE JObj([_raw |-> body])
        code  == _extract_first_nonempty(ev, <<"eventDefinitionId", "code", "eventId">>)
        sev0  == PyOr(_extract_first_nonempty(ev, <<"severity", "level", "logLevel">>),
                      JStr(<<>>))
        ent   == _extract_first_nonempty(ev, <<"entityId", "conversationId",
                                               "deploymentId", "sessionId">>)
        intg  == _extract_first_nonempty(ev, <<"integrationId", "integration",
                                               "integrationName">>)
        comp  == _extract_first_nonempty(ev, <<"component", "source", "service">>)
        byCode == Contains(Lower(PyStr(PyOr(code, JStr(<<>>))) \o <<" ">>
                                   \o PyStr(PyOr(comp, JStr(<<>>)))), Keyword)
    IN  IF ~IsStr(sev0) THEN [raised |-> TRUE]    \* .upper(): AttributeError
        ELSE IF ~byCode /\ ~IsStr(PyOr(topic, JStr(<<>>)))
        THEN [raised |-> TRUE]                    \* .lower(): AttributeError
        ELSE [raised |-> FALSE,
              is_audiohook |-> IsAudioHookHeuristic(code, comp, topic),
              sev |-> Upper(sev0[2]),
              doc |-> [genesys |-> [topic |-> topic, channel |-> chan],
                       op |-> [code |-> code,
                               severity |-> Upper(sev0[2]),
                               entityId |-> ent,
                               integrationId |-> intg,
                               component |-> comp,
                               isAudioHook |-> IsAudioHookHeuristic(code, comp, topic)],
                       event |-> ev]]

\* text frames of the stream: the text, and the value it parses to when it is JSON
Frame_AudioHook ==
    [parses |-> TRUE,
     value |-> JObj([topicName |-> JStr(<<"p", "l", "a", "t", "f", "o", "r", "m", ".", "o", "p", "e", "r", "a", "t", "i", "o", "n", "s">>),
                     eventBody |-> JObj([code |-> JStr(<<"A", "U", "D", "I", "O", "H", "O", "O", "K", "-", "0", "0", "0", "1">>),
                                         severity |-> JStr(<<"c", "r", "i", "t", "i", "c", "a", "l">>)])])]
Frame_System ==
    [parses |-> TRUE,
     value |-> JObj([topicName |-> JStr(<<"c", "h", "a", "n", "n", "e", "l", ".", "m", "e", "t", "a", "d", "a", "t", "a">>),
                     eventBody |-> JObj([code |-> JStr(<<"S", "Y", "S", "T", "E", "M", "-", "0", "0", "0", "1">>),
                                         severity |-> JStr(<<"W", "a", "r", "n", "i", "n", "g">>)])])]
\* text that is not JSON
Frame_NotJson == [parses |-> FALSE, value |-> JStr(<<"p", "i", "n", "g">>)]
\* JSON that is not an object: [1]
Frame_JsonList == [parses |-> TRUE, value |-> JList(<<JNum(1)>>)]
\* an object whose severity is a number
Frame_NumSeverity ==
    [parses |-> TRUE,
     value |-> JObj([topicName |-> JStr(<<"c", "h", "a", "n", "n", "e", "l", ".", "m", "e", "t", "a", "d", "a", "t", "a">>),
                     eventBody |-> JObj([severity |-> JNum(5)])])]

WellFormedFrames == {Frame_AudioHook, Frame_System}
MalformedFrames == {Frame_NotJson, Frame_JsonList, Frame_NumSeverity}
TextFrames == WellFormedFrames \cup MalformedFrames
NoFrame == [parses |-> FALSE, value |-> JNull]

\* _ws_loop: msg.json(), or {"raw": msg.data} when that fails
PayloadOf(f) == IF f.parses THEN f.value ELSE JObj([raw |-> f.value])

(* --------------------------- ElasticSink ------------------------------ *)

\* enqueue(): the action header line and the document line of the d-th document
\* enqueued (d stands for what tells two lines of equal text apart)
ActionLine(d) == <<"index", d>>
SourceLine(d, doc) == <<"doc", d, doc>>
QueueItem(d, doc) == <<ActionLine(d), SourceLine(d, doc)>>

\* asyncio.Queue(): no maxsize is given, which is maxsize 0, a queue without limit
maxsize == 0

\* a queue that holds at most one item
Full_MaxOne == Len(queue) >= 1

\* Queue.full(), on which put() waits
Full == maxsize > 0 /\ Len(queue) >= maxsize

\* a queue that hands out the newest item first
Put_Lifo(doc) ==
    /\ ~Full
    /\ enq' = enq + 1
    /\ queue' = <<QueueItem(enq + 1, doc)>> \o queue

\* ElasticSink.enqueue(doc): queue.put of the pair; the queue is unbounded
Put(doc) ==
    /\ ~Full
    /\ enq' = enq + 1
    /\ queue' = Append(queue, QueueItem(enq + 1, doc))

\* len(pending)//2
NDocs(p) == Len(p) \div 2

\* the documents whose lines are in p
DocsOf(p) == {p[i][2] : i \in 1..Len(p)}

Min(a, b) == IF a <= b THEN a ELSE b

\* the workers that ElasticSink.start creates
Live == 1..nworkers

\* the flush condition of the worker loop
\* the flush condition with a strict comparison of the size
FlushDue_StrictSize(p, e) == Len(p) > BULK_MAX_DOCS * 2 \/ e >= BULK_MAX_SECONDS

\* the flush condition without its deadline
FlushDue_SizeOnly(p, e) == Len(p) >= BULK_MAX_DOCS * 2

FlushDue(p, e) == Len(p) >= BULK_MAX_DOCS * 2 \/ e >= BULK_MAX_SECONDS

\* what the sink answers to the first POST of a flush: 200/201 with a body without
\* the error flag, with the flag, with a body json.loads or js.get fails on; a status
\* of (429, 500, 502, 503, 504); another status; an exception of the client
FirstResponses ==
    {"ok", "ok_item_errors", "ok_unparseable", "transient", "other_status", "exception"}

\* what the sink answers to the retry POST: a status < 300 with a body without the
\* item-error flag, status 200 with a body that carries the flag, a transient status
\* again, another status >= 300, an exception of the client
RetryResponses ==
    {"retry_lt300", "retry_ok_item_errors", "retry_transient", "retry_other_status",
     "retry_exception"}

\* a first POST whose non-transient error status is retried as well
FlushFirst_RetryOther(r) ==
    CASE r = "ok"             -> "sent"
      [] r = "ok_item_errors" -> "partial"
      [] r = "ok_unparseable" -> "unparsed"
      [] r = "transient"      -> "retry"
      [] r = "other_status"   -> "retry"
      [] r = "exception"      -> "exception"

\* flush(), first POST: the branch taken for each answer
FlushFirst(r) ==
    CASE r = "ok"             -> "sent"
      [] r = "ok_item_errors" -> "partial"
      [] r = "ok_unparseable" -> "unparsed"
      [] r = "transient"      -> "retry"
      [] r = "other_status"   -> "failed"
      [] r = "exception"      -> "exception"

\* flush(), retry POST: r2.status >= 300 is an error, anything else is counted sent
\* the retry taken as delivered whatever its status
FlushRetry_StatusIgnored(r) == IF r = "retry_exception" THEN "exception" ELSE "sent_retry"

FlushRetry(r) ==
    CASE r \in {"retry_lt300", "retry_ok_item_errors"} -> "sent_retry"  \* r2 is not read
      [] r = "retry_exception" -> "exception"
      [] OTHER                 -> "failed_retry"

\* the lines of the batch counted, not its documents
SentDelta_PerLine(branch, n) == IF branch \in {"sent", "sent_retry"} THEN 2 * n ELSE 0

\* the counters' change in each terminal branch of flush(), for a batch of n documents
SentDelta(branch, n) == IF branch \in {"sent", "sent_retry"} THEN n ELSE 0
\* the error count with a retry that succeeds taking one error back
ErrorDelta_RetryUndone(branch) ==
    IF branch \in {"partial", "failed", "exception", "failed_retry"} THEN 1
    ELSE IF branch = "sent_retry" THEN -1 ELSE 0

ErrorDelta(branch) ==
    IF branch \in {"partial", "failed", "failed_retry", "exception"} THEN 1 ELSE 0

InitSink ==
    /\ queue = <<>>
    /\ enq = 0
    /\ sink_stop = FALSE
    /\ sinkpc = "waiting"
    /\ nworkers \in 1..BULK_CONCURRENCY
    /\ wpc = [w \in Workers |-> IF w <= nworkers THEN "wait" ELSE "absent"]
    /\ wcancel = [w \in Workers |-> FALSE]
    /\ wfinal = [w \in Workers |-> FALSE]
    /\ wlast = [w \in Workers |-> "none"]
    /\ pending = [w \in Workers |-> <<>>]
    /\ elapsed = [w \in Workers |-> 0]
    /\ sent_docs = 0
    /\ errors = 0
    /\ docPosts = [d \in DocIds |-> 0]
    /\ docAnswer = [d \in DocIds |-> "none"]

\* ElasticSink.enqueue called with a normalized document
Enqueue ==
    /\ enq < MaxEnq
    /\ Put(HandleEventResult(PayloadOf(Frame_System), 1).doc)
    /\ UNCHANGED <<sink_stop, workerVars, notSinkVars>>

\* a POST request with the lines p as its body is issued
Posted(p) ==
    docPosts' = [d \in DocIds |-> IF d \in DocsOf(p) THEN docPosts[d] + 1 ELSE docPosts[d]]

\* flush() that is not run again by the handler of CancelledError
StartFlush_NotOnCancel(w, p, final) ==
    IF p = <<>> \/ final
    THEN /\ wpc' = [wpc EXCEPT ![w] = IF final THEN "done" ELSE "wait"]
         /\ UNCHANGED docPosts
    ELSE /\ wpc' = [wpc EXCEPT ![w] = "post1"]
         /\ docPosts' = [d \in DocIds |->
                            IF d \in {p[i][2] : i \in 1..Len(p)}
                            THEN docPosts[d] + 1 ELSE docPosts[d]]

\* flush() up to its first await, for a worker whose pending list is p:
\* nothing to do for an empty list, else the first POST is issued
StartFlush(w, p, final) ==
    IF p = <<>>
    THEN /\ wpc' = [wpc EXCEPT ![w] = IF final THEN "done" ELSE "wait"]
         /\ UNCHANGED docPosts
    ELSE /\ wpc' = [wpc EXCEPT ![w] = "post1"]
         /\ Posted(p)

\* the end of flush() after the answer r: counters, pending = [], last_flush = now
EndFlush(w, r, branch) ==
    /\ sent_docs' = sent_docs + SentDelta(branch, NDocs(pending[w]))
    /\ errors' = errors + ErrorDelta(branch)
    /\ docAnswer' = [d \in DocIds |->
                        IF d \in DocsOf(pending[w]) THEN r ELSE docAnswer[d]]
    /\ pending' = [pending EXCEPT ![w] = <<>>]
    /\ elapsed' = [elapsed EXCEPT ![w] = 0]
    /\ wlast' = [wlast EXCEPT ![w] = "none"]
    /\ wpc' = [wpc EXCEPT ![w] = IF wfinal[w] THEN "done" ELSE "wait"]

\* a queue.get() that leaves the item in the queue
Get_Peek(w) ==
    /\ wpc[w] = "wait" /\ ~wcancel[w]
    /\ queue # <<>>
    /\ LET p == pending[w] \o Head(queue) IN
         /\ queue' = queue
         /\ pending' = [pending EXCEPT ![w] = p]
         /\ IF FlushDue(p, elapsed[w])
            THEN StartFlush(w, p, FALSE)
            ELSE UNCHANGED <<wpc, docPosts>>
    /\ UNCHANGED <<enq, sink_stop, sinkpc, nworkers, wcancel, wfinal, elapsed,
                   sent_docs, errors, docAnswer, notSinkVars>>

\* _worker: queue.get() returns an item; append both lines; flush when due
Get(w) ==
    /\ wpc[w] = "wait" /\ ~wcancel[w]
    /\ queue # <<>>
    /\ LET p == pending[w] \o Head(queue) IN
         /\ queue' = Tail(queue)
         /\ pending' = [pending EXCEPT ![w] = p]
         /\ IF FlushDue(p, elapsed[w])
            THEN StartFlush(w, p, FALSE)
            ELSE UNCHANGED <<wpc, docPosts>>
    /\ UNCHANGED <<enq, sink_stop, sinkpc, nworkers, wcancel, wfinal, elapsed,
                   sent_docs, errors, docAnswer, notSinkVars>>

\* _worker: wait_for times out (timeout = max(0.1, BULK_MAX_SECONDS - elapsed))
Timeout(w) ==
    /\ wpc[w] = "wait" /\ ~wcancel[w]
    /\ elapsed[w] >= BULK_MAX_SECONDS
    /\ IF FlushDue(pending[w], elapsed[w])
       THEN StartFlush(w, pending[w], FALSE)
       ELSE UNCHANGED <<wpc, docPosts>>
    /\ UNCHANGED <<queueVars, sink_stop, sinkpc, nworkers, wcancel, wfinal, pending,
                   elapsed, sent_docs, errors, docAnswer, notSinkVars>>

\* flush(): the answer to the first POST arrives
FirstResponse(w, r) ==
    /\ wpc[w] = "post1" /\ ~wcancel[w]
    /\ IF FlushFirst(r) = "retry"
       THEN /\ wpc' = [wpc EXCEPT ![w] = "sleep"]
            /\ wlast' = [wlast EXCEPT ![w] = r]
            /\ UNCHANGED <<pending, elapsed, sent_docs, errors, docAnswer>>
       ELSE EndFlush(w, r, FlushFirst(r))
    /\ UNCHANGED <<queueVars, sink_stop, sinkpc, nworkers, wcancel, wfinal, docPosts,
                   supVars, fnVars>>

\* flush(): asyncio.sleep(RETRY_BASE_SLEEP) is over, the retry POST is issued
RetrySleepDone(w) ==
    /\ wpc[w] = "sleep" /\ ~wcancel[w]
    /\ wpc' = [wpc EXCEPT ![w] = "post2"]
    /\ Posted(pending[w])
    /\ UNCHANGED <<queueVars, sink_stop, sinkpc, nworkers, wcancel, wfinal, pending,
                   elapsed, sent_docs, errors, docAnswer, notSinkVars>>

\* flush(): the answer to the retry POST arrives
RetryResponse(w, r) ==
    /\ wpc[w] = "post2" /\ ~wcancel[w]
    /\ EndFlush(w, r, FlushRetry(r))
    /\ UNCHANGED <<queueVars, sink_stop, sinkpc, nworkers, wcancel, wfinal, docPosts,
                   supVars, fnVars>>

\* _worker: CancelledError is raised at the await the worker is suspended in
\* (queue wait, POST, retry sleep); the handler runs flush() once more
Cancelled(w) ==
    /\ wcancel[w]
    /\ wpc[w] \in {"wait", "post1", "sleep", "post2"}
    /\ wcancel' = [wcancel EXCEPT ![w] = FALSE]
    /\ wfinal' = [wfinal EXCEPT ![w] = TRUE]
    /\ StartFlush(w, pending[w], TRUE)
    /\ UNCHANGED <<queueVars, sink_stop, sinkpc, nworkers, pending, elapsed,
                   sent_docs, errors, docAnswer, notSinkVars>>

\* ElasticSink.start: stop_evt.wait() returns, every worker is cancelled
SinkCancel ==
    /\ sinkpc = "waiting" /\ sink_stop
    /\ sinkpc' = "joining"
    /\ wcancel' = [w \in Workers |-> w \in Live]
    /\ UNCHANGED <<queueVars, sink_stop, nworkers, wpc, wfinal, pending, elapsed,
                   sent_docs, errors, docPosts, docAnswer, notSinkVars>>

\* ElasticSink.start that returns without awaiting the workers it has cancelled
SinkJoined_NoAwait ==
    /\ sinkpc = "joining"
    /\ sinkpc' = "done"
    /\ UNCHANGED <<queueVars, sink_stop, nworkers, wpc, wcancel, wfinal, pending,
                   elapsed, sent_docs, errors, docPosts, docAnswer, notSinkVars>>

\* ElasticSink.start: every worker has been awaited
SinkJoined ==
    /\ sinkpc = "joining"
    /\ \A w \in Live : wpc[w] = "done"
    /\ sinkpc' = "done"
    /\ UNCHANGED <<queueVars, sink_stop, nworkers, wpc, wcancel, wfinal, pending,
                   elapsed, sent_docs, errors, docPosts, docAnswer, notSinkVars>>

\* Runner.start._stop: the signal handler sets both stop events
Signal ==
    /\ ~stop_evt
    /\ stop_evt' = TRUE
    /\ sink_stop' = TRUE
    /\ UNCHANGED <<queueVars, workerVars, runner_pc, ws_pc, frame, backoff, channel_id,
                   connect_uri, chans, subscribed, closed, sleeps, counters, fnVars>>

\* one second passes for the workers that wait on the queue
Tick ==
    /\ \E w \in Live : wpc[w] = "wait" /\ elapsed[w] < BULK_MAX_SECONDS
    /\ elapsed' = [w \in Workers |->
                      IF wpc[w] = "wait"
                      THEN Min(elapsed[w] + 1, BULK_MAX_SECONDS) ELSE elapsed[w]]
    /\ UNCHANGED <<queueVars, sink_stop, sinkpc, nworkers, wpc, wcancel, wfinal,
                   pending, sent_docs, errors, docPosts, docAnswer, notSinkVars>>

NextSink ==
    \/ Enqueue
    \/ Signal
    \/ SinkCancel
    \/ SinkJoined
    \/ Tick
    \/ \E w \in Workers : Get(w)
    \/ \E w \in Workers : Timeout(w)
    \/ \E w \in Workers, r \in FirstResponses : FirstResponse(w, r)
    \/ \E w \in Workers : RetrySleepDone(w)
    \/ \E w \in Workers, r \in RetryResponses : RetryResponse(w, r)
    \/ \E w \in Workers : Cancelled(w)

(* ---------------------- collector.py, Runner ------------------------- *)

InitRunner ==
    /\ stop_evt = FALSE
    /\ runner_pc = "await_ws"
    /\ ws_pc = "create"
    /\ frame = NoFrame
    /\ backoff = 0
    /\ channel_id = 0
    /\ connect_uri = 0
    /\ chans = 0
    /\ subscribed = FALSE
    /\ closed = FALSE
    /\ sleeps = 0
    /\ attempts = 0
    /\ counters = [events_total |-> 0, audiohook_evts |-> 0,
                   op_errors |-> 0, op_warns |-> 0, op_infos |-> 0]

\* min(b * tenths / 10, ceiling) for delays in microseconds, rounded down
Grow(b, tenths, ceiling) ==
    IF b * tenths >= ceiling * 10 THEN ceiling ELSE (b * tenths) \div 10

\* _ws_loop: backoff = min(backoff * 1.7, RETRY_MAX_SLEEP)
NextBackoff(b) == Grow(b, 17, RETRY_MAX_SLEEP)

\* the head of the loop "while not self.stop_evt.is_set()": leave, or ws_connect
LoopHead == IF stop_evt THEN "exited" ELSE "connect"

\* GenesysClient.create_channel returned: a new channel id and connect address
NewChannel ==
    /\ chans' = chans + 1
    /\ channel_id' = chans + 1
    /\ connect_uri' = chans + 1
    /\ subscribed' = FALSE
    /\ closed' = FALSE

\* _ws_loop, before the loop: create_channel returns or raises
CreateChannel(ok) ==
    /\ ws_pc = "create"
    /\ IF ok
       THEN NewChannel /\ ws_pc' = "subscribe"
       ELSE /\ ws_pc' = "failed"
            /\ UNCHANGED <<chans, channel_id, connect_uri, subscribed, closed>>
    /\ UNCHANGED <<stop_evt, runner_pc, frame, backoff, sleeps, counters,
                   queueVars, sink_stop, workerVars, fnVars>>

\* _ws_loop, before the loop: subscribe_topics returns or raises
SubscribeTopics(ok) ==
    /\ ws_pc = "subscribe"
    /\ IF ok
       THEN /\ subscribed' = TRUE
            /\ backoff' = RETRY_BASE_SLEEP
            /\ ws_pc' = LoopHead
       ELSE /\ ws_pc' = "failed"
            /\ UNCHANGED <<subscribed, backoff>>
    /\ UNCHANGED <<stop_evt, runner_pc, frame, channel_id, connect_uri, chans, closed,
                   sleeps, counters, queueVars, sink_stop, workerVars, fnVars>>

\* _ws_loop: ws_connect(self.connect_uri) returns the stream or raises
Connect(ok) ==
    /\ ws_pc = "connect"
    /\ IF ok
       THEN /\ backoff' = RETRY_BASE_SLEEP
            /\ ws_pc' = "stream"
            /\ UNCHANGED closed
       ELSE /\ ws_pc' = "sleep"
            /\ closed' = TRUE
            /\ UNCHANGED backoff
    /\ attempts' = attempts + 1
    /\ UNCHANGED <<stop_evt, runner_pc, frame, channel_id, connect_uri, chans,
                   subscribed, sleeps, counters, queueVars, sink_stop, workerVars,
                   bk_prog, bk_floor, bk_ceiling, bk_delay, bk_slept, cls_event,
                   cls_topic, cls_result, tp_in, tp_out, rf, st, ah, part>>

\* _ws_loop: the stream yields a text frame
Receive(f) ==
    /\ ws_pc = "stream"
    /\ counters.events_total < MaxEnq
    /\ frame' = f
    /\ ws_pc' = "handle"
    /\ UNCHANGED <<stop_evt, runner_pc, backoff, channel_id, connect_uri, chans,
                   subscribed, closed, sleeps, counters, queueVars, sink_stop,
                   workerVars, fnVars>>

\* _ws_loop and handle_event: the text frame is decoded and handled; an exception
\* of handle_event leaves the stream and is caught by "except Exception"
HandleText ==
    /\ ws_pc = "handle"
    /\ frame' = NoFrame
    /\ LET res == HandleEventResult(PayloadOf(frame), channel_id) IN
         IF res.raised
         THEN /\ counters' = [counters EXCEPT !.events_total = @ + 1]
              /\ ws_pc' = "sleep"
              /\ closed' = TRUE
              /\ UNCHANGED queueVars
         ELSE /\ counters' =
                   [[[counters EXCEPT !.events_total = @ + 1]
                        EXCEPT !.audiohook_evts = IF res.is_audiohook THEN @ + 1 ELSE @]
                        EXCEPT ![SeverityCounter(res.sev)] = @ + 1]
              /\ Put(res.doc)
              /\ ws_pc' = "stream"
              /\ UNCHANGED closed
    /\ UNCHANGED <<stop_evt, runner_pc, backoff, channel_id, connect_uri, chans,
                   subscribed, sleeps, sink_stop, workerVars, fnVars>>

\* _ws_loop: a CLOSED, CLOSE or ERROR message, or the end of the stream
StreamEnd ==
    /\ ws_pc = "stream"
    /\ ws_pc' = "sleep"
    /\ closed' = TRUE
    /\ UNCHANGED <<stop_evt, runner_pc, frame, backoff, channel_id, connect_uri, chans,
                   subscribed, sleeps, counters, queueVars, sink_stop, workerVars, fnVars>>

\* _ws_loop: asyncio.sleep(backoff) is over; the delay grows; create_channel is called
SleepDone ==
    /\ ws_pc = "sleep"
    /\ sleeps < MaxSleeps
    /\ sleeps' = sleeps + 1
    /\ backoff' = NextBackoff(backoff)
    /\ ws_pc' = "recreate"
    /\ UNCHANGED <<stop_evt, runner_pc, frame, channel_id, connect_uri, chans,
                   subscribed, closed, counters, queueVars, sink_stop, workerVars, fnVars>>

\* _ws_loop, in the loop: create_channel returns, or raises and is caught
Recreate(ok) ==
    /\ ws_pc = "recreate"
    /\ IF ok
       THEN NewChannel /\ ws_pc' = "resubscribe"
       ELSE /\ ws_pc' = LoopHead
            /\ UNCHANGED <<chans, channel_id, connect_uri, subscribed, closed>>
    /\ UNCHANGED <<stop_evt, runner_pc, frame, backoff, sleeps, counters,
                   queueVars, sink_stop, workerVars, fnVars>>

\* _ws_loop, in the loop: subscribe_topics returns, or raises and is caught
Resubscribe(ok) ==
    /\ ws_pc = "resubscribe"
    /\ subscribed' = ok
    /\ ws_pc' = LoopHead
    /\ UNCHANGED <<stop_evt, runner_pc, frame, backoff, channel_id, connect_uri, chans,
                   closed, sleeps, counters, queueVars, sink_stop, workerVars, fnVars>>

\* Runner.start: the _ws_loop task has ended; the sink is told to stop
WsTaskDone ==
    /\ runner_pc = "await_ws"
    /\ ws_pc \in {"exited", "failed"}
    /\ runner_pc' = "await_sink"
    /\ sink_stop' = TRUE
    /\ UNCHANGED <<stop_evt, ws_pc, frame, backoff, channel_id, connect_uri, chans,
                   subscribed, closed, sleeps, counters, queueVars, workerVars, fnVars>>

NextRunner ==
    \/ Signal
    \/ \E ok \in BOOLEAN : CreateChannel(ok)
    \/ \E ok \in BOOLEAN : SubscribeTopics(ok)
    \/ \E ok \in BOOLEAN : Connect(ok)
    \/ \E f \in TextFrames : Receive(f)
    \/ HandleText
    \/ StreamEnd
    \/ SleepDone
    \/ \E ok \in BOOLEAN : Recreate(ok)
    \/ \E ok \in BOOLEAN : Resubscribe(ok)
    \/ WsTaskDone

(* ------------- the reconnect delay across connect attempts ------------ *)

\* configured floors and ceilings, in microseconds (0.5 s .. 60 s)
Floors == {500000, 1500000, 5000000, 40000000}
Ceilings == {3000000, 30000000, 60000000}

\* the growth factor of each program, in tenths: 1.7 and 1.5
GrowthTenths(prog) == IF prog = "collector" THEN 17 ELSE 15

\* the delay grown without the ceiling
DelayAfterSleep_Uncapped(prog, d, ceiling) == (d * GrowthTenths(prog)) \div 10

\* backoff = min(backoff * 1.7, RETRY_MAX_SLEEP) and
\* reconnect_delay = min(reconnect_delay * 1.5, MAX_RECONNECT_DELAY)
DelayAfterSleep(prog, d, ceiling) == Grow(d, GrowthTenths(prog), ceiling)

\* the functions that are checked alone, at rest
InitFnIdle ==
    /\ bk_prog = "collector"
    /\ bk_floor = RETRY_BASE_SLEEP
    /\ bk_ceiling = RETRY_MAX_SLEEP
    /\ bk_delay = RETRY_BASE_SLEEP
    /\ bk_slept = <<>>
    /\ cls_event = JNull
    /\ cls_topic = JNull
    /\ cls_result = [collector |-> "none", audiohook |-> "none", forwarded |-> "none"]

\* backoff = RETRY_BASE_SLEEP, reconnect_delay = RECONNECT_DELAY before the loop
InitBackoff ==
    /\ bk_prog \in {"collector", "audiohook"}
    /\ bk_floor \in Floors
    /\ bk_ceiling \in Ceilings
    /\ bk_delay = bk_floor
    /\ bk_slept = <<>>
    /\ cls_event = JNull
    /\ cls_topic = JNull
    /\ cls_result = [collector |-> "none", audiohook |-> "none", forwarded |-> "none"]

\* a connect fails or the stream ends: the delay is slept, then grown
FailedAttempt ==
    /\ Len(bk_slept) < MaxFailures
    /\ bk_slept' = Append(bk_slept, bk_delay)
    /\ bk_delay' = DelayAfterSleep(bk_prog, bk_delay, bk_ceiling)
    /\ UNCHANGED <<bk_prog, bk_floor, bk_ceiling, cls_event, cls_topic, cls_result, tp_in,
                   tp_out, part, restVars,
                   queueVars, sink_stop, workerVars, supVars>>

\* a connect succeeds: the delay is reset and a new run of failures begins
ConnectedAttempt ==
    /\ bk_slept # <<>>
    /\ bk_delay' = bk_floor
    /\ bk_slept' = <<>>
    /\ UNCHANGED <<bk_prog, bk_floor, bk_ceiling, cls_event, cls_topic, cls_result, tp_in,
                   tp_out, part, restVars,
                   queueVars, sink_stop, workerVars, supVars>>

NextBackoffStep == FailedAttempt \/ ConnectedAttempt

(* ------------------- the classification predicates -------------------- *)

\* audiohook_collector.py, is_audiohook_event(event): "true", "false", or
\* "raised" when a value it reads has no get, startswith or lower
is_audiohook_event(event) ==
    LET has(d, k) == k \in DOMAIN d[2]
        event_entity == IF has(event, "eventEntity") THEN event[2]["eventEntity"]
                        ELSE JObj(<<>>)
    IN  IF ~IsObj(event_entity) THEN "raised"
        ELSE
        LET event_id == IF has(event_entity, "id") THEN event_entity[2]["id"]
                        ELSE JStr(<<>>)
            entity_type == IF has(event, "entityType") THEN event[2]["entityType"]
                           ELSE JStr(<<>>)
            entity_name == IF has(event_entity, "name") THEN event_entity[2]["name"]
                           ELSE JStr(<<>>)
        IN  IF ~IsStr(event_id) THEN "raised"
            ELSE IF StartsWith(event_id[2], <<"A", "U", "D", "I", "O", "H", "O", "O", "K", "-">>) THEN "true"
            ELSE IF ~IsStr(entity_type) \/ ~IsStr(entity_name) THEN "raised"
            ELSE IF \/ Contains(Lower(entity_type[2]), Keyword)
                    \/ Contains(Lower(entity_name[2]), Keyword)
                 THEN "true" ELSE "false"

\* collector.py, handle_event: the isAudioHook flag of the document for a message
\* with this topic name and event body
is_audiohook(event, topic) ==
    LET res == HandleEventResult(JObj([topicName |-> topic, eventBody |-> event]), 1)
    IN  IF res.raised THEN "raised"
        ELSE IF res.doc.op.isAudioHook THEN "true" ELSE "false"

\* event codes, components and topic names of the events that are classified
Codes == {<<"A", "U", "D", "I", "O", "H", "O", "O", "K", "-", "0", "0", "0", "1">>, <<"a", "u", "d", "i", "o", "h", "o", "o", "k", "-", "0", "0", "0", "1">>,
          <<"S", "Y", "S", "T", "E", "M", "-", "0", "0", "0", "1">>}
Components == {<<"i", "n", "t", "e", "g", "r", "a", "t", "i", "o", "n">>,
               <<"A", "u", "d", "i", "o", "H", "o", "o", "k">>}
Names == {<<"A", "u", "d", "i", "o", "H", "o", "o", "k", " ", "e", "r", "r", "o", "r">>,
          <<"S", "y", "s", "t", "e", "m", " ", "e", "v", "e", "n", "t">>}
Topics == {<<"c", "h", "a", "n", "n", "e", "l", ".", "m", "e", "t", "a", "d", "a", "t", "a">>,
           <<"v", "2", ".", "A", "u", "d", "i", "o", "H", "o", "o", "k", ".", "o", "p", "s">>}

\* an event that carries its code and its component under the keys of both programs
EventOf(code, comp, name) ==
    JObj([code |-> JStr(code), component |-> JStr(comp), entityType |-> JStr(comp),
          eventEntity |-> JObj([id |-> JStr(code), name |-> JStr(name)])])

InitClassify ==
    /\ \E c \in Codes, m \in Components, n \in Names : cls_event = EventOf(c, m, n)
    /\ cls_topic \in {JStr(t) : t \in Topics}
    /\ cls_result = [collector |-> "none", audiohook |-> "none", forwarded |-> "none"]
    /\ bk_prog = "collector"
    /\ bk_floor = RETRY_BASE_SLEEP
    /\ bk_ceiling = RETRY_MAX_SLEEP
    /\ bk_delay = RETRY_BASE_SLEEP
    /\ bk_slept = <<>>

\* the predicate of collector.py is applied to the event
ClassifyCollector ==
    /\ cls_result.collector = "none"
    /\ cls_result' = [cls_result EXCEPT !.collector = is_audiohook(cls_event, cls_topic)]
    /\ UNCHANGED <<cls_event, cls_topic, bk_prog, bk_floor, bk_ceiling, bk_delay,
                   bk_slept, tp_in, tp_out, part, restVars,
                   queueVars, sink_stop, workerVars, supVars>>

\* the predicate of audiohook_collector.py is applied to the event
ClassifyAudioHook ==
    /\ cls_result.audiohook = "none"
    /\ cls_result' = [cls_result EXCEPT !.audiohook = is_audiohook_event(cls_event)]
    /\ UNCHANGED <<cls_event, cls_topic, bk_prog, bk_floor, bk_ceiling, bk_delay,
                   bk_slept, tp_in, tp_out, part, restVars,
                   queueVars, sink_stop, workerVars, supVars>>

\* audiohook_collector.py, handle_websocket_message(message): whether the event
\* of the message is formatted and written ("true"), dropped ("false"), or the
\* call raises ("raised")
handle_websocket_message(message) ==
    LET event_body == IF "eventBody" \in DOMAIN message[2] THEN message[2]["eventBody"]
                      ELSE JObj(<<>>)
    IN  IF ~Truthy(event_body) \/ ~IsObj(event_body) THEN "false"
        ELSE is_audiohook_event(event_body)

\* a message of the stream is handled by audiohook_collector.py
HandleWebsocketMessage ==
    /\ cls_result.forwarded = "none"
    /\ cls_result' = [cls_result EXCEPT !.forwarded =
           handle_websocket_message(JObj([topicName |-> cls_topic, eventBody |-> cls_event]))]
    /\ UNCHANGED <<cls_event, cls_topic, bk_prog, bk_floor, bk_ceiling, bk_delay,
                   bk_slept, tp_in, tp_out, part, restVars,
                   queueVars, sink_stop, workerVars, supVars>>

NextClassify == ClassifyCollector \/ ClassifyAudioHook \/ HandleWebsocketMessage

(* ---------------------- the resolution of the topics ------------------ *)

\* s.strip(), for the space character
RECURSIVE LStrip(_)
LStrip(s) == IF s # <<>> /\ Head(s) = " " THEN LStrip(Tail(s)) ELSE s
RECURSIVE RStrip(_)
RStrip(s) ==
    IF s # <<>> /\ s[Len(s)] = " " THEN RStrip(SubSeq(s, 1, Len(s) - 1)) ELSE s
Strip(s) == RStrip(LStrip(s))

\* AUDIOHOOK_TOPICS of audiohook_collector.py
AUDIOHOOK_TOPICS ==
    <<JStr(<<"p", "l", "a", "t", "f", "o", "r", "m", ".", "i", "n", "t", "e", "g", "r", "a", "t", "i", "o", "n", ".", "a", "u", "d", "i", "o", "h", "o", "o", "k">>),
      JStr(<<"p", "l", "a", "t", "f", "o", "r", "m", ".", "o", "p", "e", "r", "a", "t", "i", "o", "n", "s", ".", "a", "u", "d", "i", "o", "h", "o", "o", "k">>),
      JStr(<<"v", "2", ".", "a", "u", "d", "i", "t", "i", "n", "g", ".", "i", "n", "t", "e", "g", "r", "a", "t", "i", "o", "n", ".", "a", "u", "d", "i", "o", "h", "o", "o", "k">>)>>

\* FALLBACK_TOPICS of collector.py, as it is by default
FALLBACK_TOPICS ==
    <<JStr(<<"c", "h", "a", "n", "n", "e", "l", ".", "m", "e", "t", "a", "d", "a", "t", "a">>),
      JStr(<<"v", "2", ".", "u", "s", "e", "r", "s", ".", "m", "e", ".", "p", "r", "e", "s", "e", "n", "c", "e">>)>>

W_operational == <<"o", "p", "e", "r", "a", "t", "i", "o", "n", "a", "l">>
W_audio == <<"a", "u", "d", "i", "o">>
W_hook == <<"h", "o", "o", "k">>

\* the topics file: absent, unreadable or not JSON, or the JSON value it holds
FileAbsent == <<"absent">>
FileUnreadable == <<"unreadable">>
TopicsFiles ==
    {FileAbsent, FileUnreadable,
     JList(<<JNum(1)>>),
     JObj(<<>>),
     JObj([topics |-> JNull]),
     JObj([topics |-> JList(<<>>)]),
     JObj([topics |-> JList(<<JStr(<<" ">>)>>)]),
     JObj([topics |-> JList(<<JNum(7)>>)]),
     JObj([topics |-> JList(<<JStr(<<"v", "2", ".", "c", "u", "s", "t", "o", "m", ".", "t", "o", "p", "i", "c">>)>>)])}

\* the answer to GET /api/v2/notifications/availabletopics: the request fails,
\* or the list of topics it returns
DiscoveryFails == <<"fails">>
Discoveries ==
    {DiscoveryFails,
     JList(<<>>),
     JList(<<JObj([id |-> JStr(<<"c", "h", "a", "n", "n", "e", "l", ".", "m", "e", "t", "a", "d", "a", "t", "a">>)])>>),
     JList(<<JObj([id |-> JStr(<<"c", "h", "a", "n", "n", "e", "l", ".", "m", "e", "t", "a", "d", "a", "t", "a">>)]),
             JObj([id |-> JStr(<<"v", "2", ".", "A", "u", "d", "i", "o", "H", "o", "o", "k", ".", "o", "p", "s">>)])>>)}

\* audiohook_collector.py, load_topics(): the topics it returns
load_topics(file, discovery) ==
    LET fromFile ==
            IF file \in {FileAbsent, FileUnreadable} THEN <<>>
            ELSE IF ~IsObj(file) THEN <<>>                      \* data.get raises
            ELSE LET ts == IF "topics" \in DOMAIN file[2] THEN file[2]["topics"]
                           ELSE JList(<<>>)
                 IN  IF ts[1] # "list" THEN <<>>                \* the loop raises
                     ELSE IF \E i \in 1..Len(ts[2]) : ~IsStr(ts[2][i]) THEN <<>>
                     ELSE LET kept == SelectSeq(ts[2], LAMBDA t : Strip(t[2]) # <<>>)
                          IN  [i \in 1..Len(kept) |-> JStr(Strip(kept[i][2]))]
        discovered ==
            IF discovery = DiscoveryFails THEN <<>>
            ELSE LET hits == SelectSeq(discovery[2],
                                 LAMBDA t : IsObj(t) /\ "id" \in DOMAIN t[2]
                                            /\ Contains(Lower(t[2]["id"][2]), Keyword))
                 IN  [i \in 1..Len(hits) |-> hits[i][2]["id"]]
    IN  IF fromFile # <<>> THEN fromFile
        ELSE IF discovered # <<>> THEN discovered
        ELSE AUDIOHOOK_TOPICS

\* collector.py, Runner._load_topics_from_file(): the entries it returns
_load_topics_from_file(file) ==
    IF file \in {FileAbsent, FileUnreadable} THEN <<>>
    ELSE IF ~IsObj(file) THEN <<>>                              \* js.get raises
    ELSE LET ts == PyOr(PyGet(file, "topics"), JList(<<>>))
         IN  IF ts[1] # "list" THEN <<>>
             ELSE SelectSeq(ts[2], Truthy)

\* collector.py, Runner._discover_audiohook_topics(), no include or exclude
\* pattern being configured
_discover_audiohook_topics(discovery) ==
    IF discovery = DiscoveryFails THEN <<>>
    ELSE LET tid(t) == Strip(PyOr(PyOr(PyGet(t, "id"), PyGet(t, "topicName")),
                                  JStr(<<>>))[2])
             include(t) ==
                 /\ tid(t) # <<>>
                 /\ \/ Contains(Lower(tid(t)), Keyword)
                    \/ /\ Contains(Lower(tid(t)), W_operational)
                       /\ \/ Contains(Lower(tid(t)), W_audio)
                          \/ Contains(Lower(tid(t)), W_hook)
             selected == SelectSeq(discovery[2], include)
         IN  IF selected = <<>> THEN FALLBACK_TOPICS
             ELSE [i \in 1..Len(selected) |-> JStr(tid(selected[i]))]

\* the topics resolved with the discovery asked before the file is read
select_topics_DiscoveryFirst(file, discovery, auto_discover) ==
    LET found == IF auto_discover THEN _discover_audiohook_topics(discovery) ELSE <<>>
    IN  IF found # <<>> THEN found
        ELSE IF _load_topics_from_file(file) # <<>> THEN _load_topics_from_file(file)
        ELSE FALLBACK_TOPICS

\* collector.py, Runner.select_topics(): the value of self.topic_ids
select_topics(file, discovery, auto_discover) ==
    LET fromFile == _load_topics_from_file(file)
        topics == IF fromFile # <<>> THEN fromFile
                  ELSE IF auto_discover THEN _discover_audiohook_topics(discovery)
                  ELSE FALLBACK_TOPICS
    IN  IF topics # <<>> THEN topics ELSE FALLBACK_TOPICS

InitTopicsIdle ==
    /\ tp_in = [prog |-> "collector", file |-> FileAbsent, discovery |-> DiscoveryFails,
                auto_discover |-> TRUE]
    /\ tp_out = [done |-> FALSE, topics |-> <<>>]

InitTopics ==
    /\ tp_in \in [prog : {"collector", "audiohook"}, file : TopicsFiles,
                  discovery : Discoveries, auto_discover : BOOLEAN]
    /\ tp_in.prog = "audiohook" => tp_in.auto_discover
    /\ tp_out = [done |-> FALSE, topics |-> <<>>]

\* the topics are resolved at startup
ResolveTopics ==
    /\ ~tp_out.done
    /\ tp_out' = [done |-> TRUE,
                  topics |-> IF tp_in.prog = "audiohook"
                             THEN load_topics(tp_in.file, tp_in.discovery)
                             ELSE select_topics(tp_in.file, tp_in.discovery,
                                                tp_in.auto_discover)]
    /\ UNCHANGED <<tp_in, bk_prog, bk_floor, bk_ceiling, bk_delay, bk_slept, cls_event,
                   cls_topic, cls_result, part, restVars,
                   queueVars, sink_stop, workerVars, supVars>>

NextTopics == ResolveTopics

(* ------------------- the rotation of the output file ------------------ *)

\* the largest BACKUP_COUNT that is tried
MaxBackups == 3

\* audiohook_collector.py, MAX_FILE_SIZE: the default, in bytes
MAX_FILE_SIZE == 10485760

\* the paths: 0 is the output file, i >= 1 is its backup '.i'
Slots == 0..MaxBackups

\* no file at any of the paths (a file is the identity of its content, 0: no file)
NoFiles == [i \in Slots |-> 0]

\* the number of the filesystem operation that raises (0: none does)
Faults == 0..(2 * MaxBackups)

\* Path.unlink() of path j, in a rotation r = [files, ok, failed] where ok operations
\* still succeed before one raises
Unlink(r, j) ==
    IF r.failed THEN r
    ELSE IF r.ok = 0 THEN [r EXCEPT !.failed = TRUE]
    ELSE [r EXCEPT !.files[j] = 0, !.ok = r.ok - 1]

\* Path.rename() of path i to path j
Rename(r, i, j) ==
    IF r.failed THEN r
    ELSE IF r.ok = 0 THEN [r EXCEPT !.failed = TRUE]
    ELSE [r EXCEPT !.files[j] = r.files[i], !.files[i] = 0, !.ok = r.ok - 1]

\* a loop body that leaves the backups where they are
ShiftBackup_Kept(r, i) == r

\* rotate_file, the body of the loop for backup i
ShiftBackup(r, i) ==
    IF r.failed \/ r.files[i] = 0 THEN r
    ELSE Rename(IF r.files[i + 1] # 0 THEN Unlink(r, i + 1) ELSE r, i, i + 1)

\* rotate_file, the loop: for i in range(BACKUP_COUNT - 1, 0, -1)
RECURSIVE ShiftBackups(_, _)
ShiftBackups(r, i) == IF i < 1 THEN r ELSE ShiftBackups(ShiftBackup(r, i), i - 1)

\* rotate_file(filepath) with BACKUP_COUNT = count on a file of the given size, when
\* the fault-th filesystem operation raises: the files afterwards and whether the
\* warning was logged
rotate_file(files, size, count, fault) ==
    IF files[0] = 0 \/ size < MAX_FILE_SIZE THEN [files |-> files, failed |-> FALSE]
    ELSE LET r0 == [files |-> files, failed |-> FALSE,
                    ok |-> IF fault = 0 THEN 2 * MaxBackups ELSE fault - 1]
             r1 == ShiftBackups(r0, count - 1)
             r2 == IF r1.files[1] # 0 THEN Unlink(r1, 1) ELSE r1
             r3 == Rename(r2, 0, 1)
         IN  [files |-> r3.files, failed |-> r3.failed]

\* no rotation is under way
InitRotateIdle ==
    rf = [count |-> 0, size |-> 0, fault |-> 0, before |-> NoFiles, after |-> NoFiles,
          failed |-> FALSE, done |-> TRUE]

\* an output file that is missing, below, at or above MAX_FILE_SIZE, and the backups
\* that earlier rotations with the same BACKUP_COUNT have left
InitRotate ==
    \E count \in 0..MaxBackups, kept \in SUBSET (1..MaxBackups), present \in BOOLEAN,
       size \in {MAX_FILE_SIZE - 1, MAX_FILE_SIZE, MAX_FILE_SIZE + 1}, fault \in Faults :
        /\ \A i \in kept : i <= count \/ i = 1
        /\ ~present => size = MAX_FILE_SIZE - 1
        /\ LET files == [i \in Slots |-> IF i = 0 THEN (IF present THEN 1 ELSE 0)
                                         ELSE IF i \in kept THEN i + 1 ELSE 0]
           IN  rf = [count |-> count, size |-> size, fault |-> fault, before |-> files,
                     after |-> files, failed |-> FALSE, done |-> FALSE]

\* write_event calls rotate_file(self.output_file)
RotateFile ==
    /\ ~rf.done
    /\ LET r == rotate_file(rf.before, rf.size, rf.count, rf.fault)
       IN  rf' = [rf EXCEPT !.after = r.files, !.failed = r.failed, !.done = TRUE]
    /\ UNCHANGED <<bk_prog, bk_floor, bk_ceiling, bk_delay, bk_slept, cls_event,
                   cls_topic, cls_result, tp_in, tp_out, part, st, ah, attempts,
                   queueVars, sink_stop, workerVars, supVars>>

NextRotate == RotateFile


(* ---------------------- the startup of the programs ------------------- *)

\* the settings that name a credential or an endpoint
Settings == {"GENESYS_CLIENT_ID", "GENESYS_CLIENT_SECRET", "GENESYS_ENV", "ELASTIC_URL"}

\* the settings a program uses without testing them: the token request uses the
\* credentials and the environment; collector.py posts every batch to ELASTIC_URL,
\* audiohook_collector.py only when ELASTIC_URL is set
Required(prog) ==
    IF prog = "collector" THEN Settings ELSE Settings \ {"ELASTIC_URL"}

\* a validation that looks at the credentials and the environment only
Validated_CredentialsOnly(prog) == Settings \ {"ELASTIC_URL"}

\* the settings that the validation at startup tests
Validated(prog) ==
    IF prog = "collector" THEN Settings ELSE Settings \ {"ELASTIC_URL"}

\* the calls of a startup that reach the notification service or start a worker
Calls == {"token", "discovery", "channel", "subscribe", "stream", "worker"}

\* no startup is under way
InitStartIdle ==
    st = [prog |-> "collector", set |-> Settings, file_yields |-> TRUE,
          auto_discover |-> TRUE, pc |-> "running", calls |-> {}]

\* a program is started with some settings set and the others empty
InitStart ==
    \E prog \in {"collector", "audiohook"}, set \in SUBSET Settings,
       file_yields \in BOOLEAN, auto_discover \in BOOLEAN :
        st = [prog |-> prog, set |-> set, file_yields |-> file_yields,
              auto_discover |-> auto_discover, pc |-> "start", calls |-> {}]

\* the variables a step of the startup leaves alone
notStartVars == <<bk_prog, bk_floor, bk_ceiling, bk_delay, bk_slept, cls_event,
                  cls_topic, cls_result, tp_in, tp_out, part, rf, ah, attempts,
                  queueVars, sink_stop, workerVars, supVars>>

\* Runner.start and AudioHookCollector.run: the validation; SystemExit or ValueError
\* ends the startup
Validate ==
    /\ st.pc = "start"
    /\ st' = [st EXCEPT !.pc = IF Validated(st.prog) \subseteq st.set
                                THEN (IF st.prog = "collector" THEN "select" ELSE "http")
                                ELSE "failed"]
    /\ UNCHANGED notStartVars

\* Runner.start: select_topics; the discovery is asked when the file yields nothing
\* and AUTO_DISCOVER is set
SelectTopics ==
    /\ st.pc = "select"
    /\ st' = [st EXCEPT !.pc = "sink",
                        !.calls = @ \cup (IF ~st.file_yields /\ st.auto_discover
                                          THEN {"token", "discovery"} ELSE {})]
    /\ UNCHANGED notStartVars

\* Runner.start: the task of sink.start, which creates the flush workers, and the
\* status server
StartSink ==
    /\ st.pc = "sink"
    /\ st' = [st EXCEPT !.pc = "ws", !.calls = @ \cup {"worker"}]
    /\ UNCHANGED notStartVars

\* AudioHookCollector.run: self.running = True and start_http_server
StartHttpServer ==
    /\ st.pc = "http"
    /\ st' = [st EXCEPT !.pc = "ws"]
    /\ UNCHANGED notStartVars

\* Runner.start creates the task of _ws_loop; AudioHookCollector.run awaits
\* websocket_loop, whose setup_notification_channel creates the channel, loads the
\* topics and subscribes. The channel is created (ok) or the request fails.
StartStream(ok) ==
    /\ st.pc = "ws"
    /\ st' = [st EXCEPT
                !.pc = "running",
                !.calls = @ \cup {"token", "channel"}
                            \cup (IF ok THEN {"subscribe", "stream"} ELSE {})
                            \cup (IF ok /\ st.prog = "audiohook" /\ ~st.file_yields
                                  THEN {"discovery"} ELSE {})]
    /\ UNCHANGED notStartVars

NextStart ==
    \/ Validate
    \/ SelectTopics
    \/ StartSink
    \/ StartHttpServer
    \/ \E ok \in BOOLEAN : StartStream(ok)


(* ------------- audiohook_collector.py, websocket_loop ----------------- *)

\* BULK_SIZE: the number of buffered events that causes a flush
BULK_SIZE == 2

\* the newline that separates and ends the lines of a bulk body
NL == <<"newline">>

\* a body whose last line is not ended by a newline
RECURSIVE Ndjson_NoTrailingNewline(_)
Ndjson_NoTrailingNewline(lines) ==
    IF lines = <<>> THEN <<>>
    ELSE IF Len(lines) = 1 THEN <<lines[1]>>
    ELSE <<lines[1], NL>> \o Ndjson_NoTrailingNewline(Tail(lines))

\* "\n".join(lines) + "\n", as the sequence of the lines and the newlines
RECURSIVE Join(_)
Join(lines) ==
    IF lines = <<>> THEN <<>>
    ELSE IF Len(lines) = 1 THEN <<lines[1]>>
    ELSE <<lines[1], NL>> \o Join(Tail(lines))

Ndjson(lines) == Join(lines) \o <<NL>>

\* flush_to_elasticsearch: bulk_data, an action line and the event's line for every
\* event of the buffer
RECURSIVE bulk_data(_)
bulk_data(buffer) ==
    IF buffer = <<>> THEN <<>>
    ELSE <<ActionLine(buffer[1]), SourceLine(buffer[1], buffer[1])>> \o bulk_data(Tail(buffer))

\* RECONNECT_DELAY and MAX_RECONNECT_DELAY: the defaults, in microseconds
RECONNECT_DELAY == 5000000
MAX_RECONNECT_DELAY == 60000000

\* websocket_loop has not been entered
InitAhIdle ==
    ah = [pc |-> "stopped", running |-> FALSE, ws_url |-> FALSE, topics |-> <<>>,
          subs |-> <<>>, reconnect_delay |-> RECONNECT_DELAY, sleeps |-> 0,
          events |-> 0, elastic_buffer |-> <<>>, body |-> <<>>, attempts |-> 0]

\* run: self.running = True; websocket_loop: reconnect_delay = RECONNECT_DELAY, and
\* the first pass of the loop finds no ws_url
InitAh ==
    ah = [pc |-> "setup", running |-> TRUE, ws_url |-> FALSE, topics |-> <<>>,
          subs |-> <<>>, reconnect_delay |-> RECONNECT_DELAY, sleeps |-> 0,
          events |-> 0, elastic_buffer |-> <<>>, body |-> <<>>, attempts |-> 0]

\* the variables a step of websocket_loop leaves alone
notAhVars == <<bk_prog, bk_floor, bk_ceiling, bk_delay, bk_slept, cls_event,
               cls_topic, cls_result, tp_in, tp_out, part, rf, st, attempts,
               queueVars, sink_stop, workerVars, supVars>>

\* a loop that goes to its next pass without the sleep
AfterAttempt_NoSleep == IF ah.running THEN "setup" ELSE "stopped"

\* websocket_loop, after the try statement: "if self.running" sleeps, and the loop
\* ends otherwise
AfterAttempt == IF ah.running THEN "sleep" ELSE "stopped"

\* setup_notification_channel: self.topics = await self.load_topics()
setup_topics(file, discovery) == load_topics(file, discovery)

\* websocket_loop: "if not self.ws_url" calls setup_notification_channel, which
\* creates the channel, loads the topics from what the file and the discovery
\* hold now, and subscribes; a request that fails raises into "except Exception"
AhSetup(ok_channel, file, discovery, ok_subscribe) ==
    /\ ah.pc = "setup"
    /\ IF ~ok_channel
       THEN ah' = [ah EXCEPT !.pc = AfterAttempt, !.attempts = @ + 1]
       ELSE LET topics == setup_topics(file, discovery) IN
            ah' = [ah EXCEPT !.ws_url = TRUE,
                             !.attempts = @ + 1,
                             !.topics = topics,
                             !.subs = IF ok_subscribe THEN Append(@, topics) ELSE @,
                             !.pc = IF ok_subscribe THEN "connect" ELSE AfterAttempt]
    /\ UNCHANGED notAhVars

\* a connect that leaves the delay as it is
AhConnected_NoReset == ah' = [ah EXCEPT !.pc = "stream"]

\* websocket_loop: ws_connect has returned, reconnect_delay = RECONNECT_DELAY
AhConnected == ah' = [ah EXCEPT !.pc = "stream", !.reconnect_delay = RECONNECT_DELAY]

\* websocket_loop: ws_connect returns a stream or raises
AhConnect(ok) ==
    /\ ah.pc = "connect"
    /\ IF ok THEN AhConnected ELSE ah' = [ah EXCEPT !.pc = AfterAttempt]
    /\ UNCHANGED notAhVars

\* websocket_loop: the stream closes, reports an error or is exhausted
AhStreamEnd ==
    /\ ah.pc = "stream"
    /\ ah' = [ah EXCEPT !.pc = AfterAttempt]
    /\ UNCHANGED notAhVars

\* websocket_loop: asyncio.sleep(reconnect_delay) is over; the delay grows, the
\* channel is forgotten, and "while self.running" is tested
AhSleepDone ==
    /\ ah.pc = "sleep"
    /\ ah.sleeps < MaxSleeps
    /\ ah' = [ah EXCEPT
                !.sleeps = @ + 1,
                !.reconnect_delay = DelayAfterSleep("audiohook", @, MAX_RECONNECT_DELAY),
                !.ws_url = FALSE,
                !.pc = IF ah.running THEN "setup" ELSE "stopped"]
    /\ UNCHANGED notAhVars

\* flush_to_elasticsearch: one POST of the whole buffer, which is cleared whatever
\* the answer
AhFlushed(buffer) == [ah EXCEPT !.body = Ndjson(bulk_data(buffer)), !.elastic_buffer = <<>>]

\* handle_websocket_message and write_event for a message that holds an AudioHook
\* event, ELASTIC_URL being set: the event is buffered, and the buffer is flushed
\* when it holds BULK_SIZE events
AhWriteEvent ==
    /\ ah.pc = "stream"
    /\ ah.events < MaxEnq
    /\ LET buffer == Append(ah.elastic_buffer, ah.events + 1) IN
         ah' = [(IF Len(buffer) >= BULK_SIZE
                 THEN AhFlushed(buffer)
                 ELSE [ah EXCEPT !.elastic_buffer = buffer])
                EXCEPT !.events = ah.events + 1]
    /\ UNCHANGED notAhVars

\* main: websocket_loop has returned, the events that remain are flushed
AhFinalFlush ==
    /\ ah.pc = "stopped"
    /\ ah.elastic_buffer # <<>>
    /\ ah' = AhFlushed(ah.elastic_buffer)
    /\ UNCHANGED notAhVars

\* stop(), called by the signal handler
AhStop ==
    /\ ah.running
    /\ ah' = [ah EXCEPT !.running = FALSE]
    /\ UNCHANGED notAhVars

NextAh ==
    \/ \E ok_channel \in BOOLEAN, file \in TopicsFiles, discovery \in Discoveries,
          ok_subscribe \in BOOLEAN : AhSetup(ok_channel, file, discovery, ok_subscribe)
    \/ \E ok \in BOOLEAN : AhConnect(ok)
    \/ AhStreamEnd
    \/ AhSleepDone
    \/ AhWriteEvent
    \/ AhFinalFlush
    \/ AhStop

\* no function of the later sections is under way
InitRestIdle == InitRotateIdle /\ InitStartIdle /\ InitAhIdle

(* ------------------- the end of the two programs ---------------------- *)

\* Runner.start: "await sink_task" has returned, self.session.close() is called
SessionClose ==
    /\ runner_pc = "await_sink"
    /\ sinkpc = "done"
    /\ runner_pc' = "closed"
    /\ UNCHANGED <<stop_evt, ws_pc, frame, backoff, channel_id, connect_uri, chans,
                   subscribed, closed, sleeps, counters, queueVars, sink_stop,
                   workerVars, fnVars>>

\* main of audiohook_collector.py: the finally clause has flushed the buffer if it
\* held an event, and __aexit__ closes the session
AhExit ==
    /\ ah.pc = "stopped"
    /\ ah.elastic_buffer = <<>>
    /\ ah' = [ah EXCEPT !.pc = "closed"]
    /\ UNCHANGED notAhVars

(* --------------------------- specifications --------------------------- *)

Init == InitSink /\ InitRunner /\ InitFnIdle /\ InitTopicsIdle /\ InitRestIdle /\ part = "service"

\* the service at rest, and a configuration of the reconnect delay
InitDelays == InitSink /\ InitRunner /\ InitBackoff /\ InitTopicsIdle /\ InitRestIdle /\ part = "function"

\* the service at rest, and an event to classify
InitEvents == InitSink /\ InitRunner /\ InitClassify /\ InitTopicsIdle /\ InitRestIdle /\ part = "function"

\* the delivery sink, fed by calls of enqueue
SpecSink == Init /\ [][NextSink]_vars

\* the websocket supervisor of collector.py, feeding the queue
SpecRunner == Init /\ [][NextRunner]_vars

\* the reconnect delay of either supervisor over any sequence of attempts
SpecBackoff == InitDelays /\ [][NextBackoffStep]_vars

\* the service at rest, and the sources of the topics
InitSources == InitSink /\ InitRunner /\ InitFnIdle /\ InitTopics /\ InitRestIdle /\ part = "function"

\* the topics resolved from a topics file and a discovery answer
SpecTopics == InitSources /\ [][NextTopics]_vars

\* the classification predicates applied to one event
SpecClassify == InitEvents /\ [][NextClassify]_vars


\* time passes, and the event loop resumes a worker whose wait has timed out
SpecSinkFair ==
    /\ SpecSink
    /\ WF_vars(Tick)
    /\ \A w \in Workers : WF_vars(Timeout(w))

(* ------------------------- claims on the sink ------------------------- *)

\* ElasticSink.start has awaited every worker after the stop event
CleanShutdown == sink_stop /\ sinkpc = "done"

\* C1: after a clean shutdown no enqueued document is left in the queue or in a
\* pending batch: each was in a POSTed batch that reached a terminal outcome.
C1_NoDocumentStranded ==
    CleanShutdown =>
        /\ queue = <<>>
        /\ \A w \in Live : pending[w] = <<>>
        /\ \A d \in 1..enq : docPosts[d] >= 1 /\ docAnswer[d] # "none"

\* C2: every batch a worker flushes is accounted for exactly once: the step that
\* discards it adds its document count to sent_docs or one to errors, never
\* both and never neither.
C2_BatchAccountedOnce ==
    [][\A w \in Workers :
          (pending[w] # <<>> /\ pending'[w] = <<>>) =>
              \/ sent_docs' = sent_docs + NDocs(pending[w]) /\ errors' = errors
              \/ sent_docs' = sent_docs /\ errors' = errors + 1]_vars

\* the documents no POST has carried yet
Unposted == {d \in 1..enq : docPosts[d] = 0}

\* every worker is blocked in its queue wait before its latency deadline, and the
\* queue is empty: only the deadline or a further document can cause a flush
Quiescent ==
    /\ ~sink_stop
    /\ queue = <<>>
    /\ \A w \in Live : wpc[w] = "wait" /\ elapsed[w] < BULK_MAX_SECONDS

\* C3 (as claimed): size trigger, whatever the number of workers: once
\* BULK_MAX_DOCS documents wait unflushed, the sink does not sit waiting
\* for the latency deadline.
C3_SizeTriggerAnyConcurrency ==
    Quiescent => Cardinality(Unposted) < BULK_MAX_DOCS

\* C3 (amended): a worker never goes back to wait on the queue with
\* BULK_MAX_DOCS documents pending, and with a single worker fewer than
\* BULK_MAX_DOCS documents wait for the latency deadline.
C3_SizeTriggerPerWorker ==
    /\ \A w \in Live : wpc[w] = "wait" => NDocs(pending[w]) < BULK_MAX_DOCS
    /\ (nworkers = 1 /\ Quiescent) => Cardinality(Unposted) < BULK_MAX_DOCS

\* a single worker has started a flush of a full batch before its deadline
C3_Witness ==
    /\ nworkers = 1 /\ wpc[1] = "post1" /\ ~wfinal[1]
    /\ NDocs(pending[1]) = BULK_MAX_DOCS
    /\ elapsed[1] < BULK_MAX_SECONDS

\* C4: latency trigger: while the sink runs, a document that a worker has taken
\* off the queue is eventually POSTed, even if no further document arrives.
C4_LatencyTrigger ==
    \A d \in DocIds :
        (\E w \in Live : d \in DocsOf(pending[w])) ~> (docPosts[d] >= 1 \/ sink_stop)

\* a worker flushes a batch that is not full, its deadline being reached
C4_Witness ==
    \E w \in Live :
        /\ wpc[w] = "post1" /\ ~wfinal[w] /\ ~sink_stop
        /\ NDocs(pending[w]) < BULK_MAX_DOCS
        /\ elapsed[w] >= BULK_MAX_SECONDS

\* C7: a batch whose first POST got a transient status: a retry that succeeds
\* adds its document count to sent_docs and leaves errors; a retry that gets a
\* transient status again adds one to errors and leaves sent_docs.
C7_RetryCounted ==
    [][\A w \in Workers :
          (wpc[w] = "post2" /\ pending[w] # <<>> /\ pending'[w] = <<>>) =>
              LET d == pending[w][1][2] IN
              /\ docAnswer'[d] = "retry_lt300" =>
                    sent_docs' = sent_docs + NDocs(pending[w]) /\ errors' = errors
              /\ docAnswer'[d] = "retry_transient" =>
                    sent_docs' = sent_docs /\ errors' = errors + 1]_vars

\* both cases of the retry have happened
C7_Witness ==
    \E d, e \in DocIds :
        /\ docAnswer[d] = "retry_lt300" /\ docAnswer[e] = "retry_transient"
        /\ sent_docs >= 1 /\ errors >= 1

(* ---------------------- claims on the reconnect delay ------------------ *)

\* the delays slept in a run of consecutive failures: none above the ceiling,
\* none smaller than the one before it, the first one the floor
DelaysBounded ==
    /\ \A i \in 1..Len(bk_slept) : bk_slept[i] <= bk_ceiling
    /\ \A i \in 1..(Len(bk_slept) - 1) : bk_slept[i] <= bk_slept[i + 1]
    /\ bk_slept # <<>> => bk_slept[1] = bk_floor

\* C5: across consecutive failed connection attempts the reconnect delay never
\* decreases and never exceeds the configured ceiling, and after a successful
\* connect it starts from the configured floor again, whatever the configuration.
C5_DelayMonotoneAndCapped == DelaysBounded

\* C5, for a floor that is not above the ceiling: the delays of consecutive
\* failures never decrease and never exceed the ceiling, each is the one before
\* it times the growth factor or the ceiling, and the first is the floor.
C5_DelayMonotoneAndCappedFloorBelowCeiling ==
    bk_floor <= bk_ceiling =>
        /\ DelaysBounded
        /\ \A i \in 1..(Len(bk_slept) - 1) :
              \/ bk_slept[i + 1] = bk_ceiling
              \/ bk_slept[i + 1] = (bk_slept[i] * GrowthTenths(bk_prog)) \div 10

\* floor 1.5 s, factor 1.7, ceiling 30 s: 1.5, 2.55, 4.335, ... then 30, 30
C5_Witness ==
    /\ bk_prog = "collector" /\ bk_floor = 1500000 /\ bk_ceiling = 30000000
    /\ bk_slept = <<1500000, 2550000, 4335000, 7369500, 12528150, 21297855,
                    30000000, 30000000>>

(* ------------------------ claims on the supervisor --------------------- *)

\* a stream is being opened or is open
StreamAttempt == ws_pc \in {"connect", "stream", "handle"}

\* C6: each new stream is opened on the connect address of a channel created
\* after the previous closure, never on the address of the closed stream.
C6_StreamOnFreshAddress == StreamAttempt => ~closed

\* C8: a text frame that is not a usable event is ignored: the stream stays open
\* for the next frame, and no backoff is entered.
C8_MalformedFrameKeepsStream ==
    [][(ws_pc = "handle" /\ frame \in MalformedFrames /\ frame' # frame) =>
          (ws_pc' = "stream" /\ closed' = closed /\ backoff' = backoff)]_vars

\* C10: a stream is only ever opened on a channel whose creation and whose
\* subscription both succeeded.
C10_StreamOnSubscribedChannel == StreamAttempt => subscribed

(* -------------------- claims on the classification --------------------- *)

\* the keyword occurs, in any letter case, in the code, the component or the topic
KeywordOccurs ==
    \/ Contains(Lower(cls_event[2]["code"][2]), Keyword)
    \/ Contains(Lower(cls_event[2]["component"][2]), Keyword)
    \/ Contains(Lower(cls_topic[2]), Keyword)

\* C9: the classification predicate is true exactly when the keyword occurs,
\* whatever the letter case, in the code field, the component field or the
\* topic name of the event.
C9_ClassifiedByKeyword ==
    /\ cls_result.collector # "none" =>
          cls_result.collector = (IF KeywordOccurs THEN "true" ELSE "false")
    /\ cls_result.audiohook # "none" =>
          cls_result.audiohook = (IF KeywordOccurs THEN "true" ELSE "false")

\* C11: the supervisor loop ends, and the service goes on to shut down, only
\* after a shutdown signal: no failure ends it.
C11_EndsOnlyOnSignal ==
    (ws_pc \in {"exited", "failed"} \/ runner_pc # "await_ws") => stop_evt

\* C12: once the shutdown signal has been raised the supervisor begins no
\* connection attempt: it enters neither the channel creation nor the
\* subscription of a reconnect, nor the opening of a stream.
C12_NoAttemptAfterSignal ==
    [][stop_evt =>
          (ws_pc' = ws_pc \/ ws_pc' \notin {"recreate", "resubscribe", "connect"})]_vars

\* the supervisor on a platform that sends no text frame
NextIdle ==
    \/ Signal
    \/ \E ok \in BOOLEAN : CreateChannel(ok)
    \/ \E ok \in BOOLEAN : SubscribeTopics(ok)
    \/ \E ok \in BOOLEAN : Connect(ok)
    \/ StreamEnd
    \/ SleepDone
    \/ \E ok \in BOOLEAN : Recreate(ok)
    \/ \E ok \in BOOLEAN : Resubscribe(ok)
    \/ WsTaskDone

\* the supervisor's own steps are taken when they can be: calls to the platform
\* return or raise, and sleeps end; the platform is not obliged to close the stream
SpecIdleFair ==
    /\ Init /\ [][NextIdle]_vars
    /\ WF_vars(\E ok \in BOOLEAN : CreateChannel(ok))
    /\ WF_vars(\E ok \in BOOLEAN : SubscribeTopics(ok))
    /\ WF_vars(\E ok \in BOOLEAN : Connect(ok))
    /\ WF_vars(SleepDone)
    /\ WF_vars(\E ok \in BOOLEAN : Recreate(ok))
    /\ WF_vars(\E ok \in BOOLEAN : Resubscribe(ok))
    /\ WF_vars(WsTaskDone)

\* C13: after a shutdown signal the supervisor eventually leaves its loop, from
\* whatever state it was in, an open stream included (runs are followed up to
\* MaxSleeps backoff sleeps).
C13_SupervisorStopsAfterSignal ==
    stop_evt ~> (ws_pc \in {"exited", "failed"} \/ sleeps = MaxSleeps)

(* ------------------------ claims on the counters ----------------------- *)

\* either the sink or the supervisor is started, and runs alone
InitPart == InitSink /\ InitRunner /\ InitFnIdle /\ InitTopicsIdle /\ InitRestIdle /\ part \in {"sink", "supervisor"}

NextPart ==
    \/ part = "sink" /\ NextSink
    \/ part = "supervisor" /\ NextRunner

\* the steps of the sink and the steps of the supervisor, each run alone
SpecPart == InitPart /\ [][NextPart]_vars

\* C14: no step of the supervisor, of the normalizer or of a flush worker lowers
\* a counter: events received, classified events, the severity buckets,
\* delivered documents, delivery errors, backoff sleeps.
C14_CountersNeverDecrease ==
    [][/\ \A k \in DOMAIN counters : counters'[k] >= counters[k]
       /\ sent_docs' >= sent_docs
       /\ errors' >= errors
       /\ sleeps' >= sleeps]_vars

\* events have been counted and classified, a batch delivered, another one failed
C14_Witness ==
    \/ part = "supervisor" /\ counters.events_total = MaxEnq
                           /\ counters.audiohook_evts >= 1 /\ counters.op_errors >= 1
    \/ part = "sink" /\ sent_docs >= 1 /\ errors >= 1

(* ------------------------- claims on enqueue --------------------------- *)

\* C15: in every reachable state the queue is not full, so that enqueue does not
\* wait, whatever the queue length and the state of the workers, and a call adds exactly one action/document pair, at the tail of the queue.
C15_EnqueueNeverBlocks ==
    /\ []~Full
    /\ [][enq' # enq =>
             /\ enq' = enq + 1
             /\ Len(queue') = Len(queue) + 1
             /\ SubSeq(queue', 1, Len(queue)) = queue
             /\ queue'[Len(queue')][1] = ActionLine(enq')
             /\ queue'[Len(queue')][2][2] = enq']_vars

\* a document was enqueued behind another one while the only worker was in the
\* middle of a flush
C15_Witness ==
    /\ nworkers = 1 /\ wpc[1] \in {"post1", "sleep", "post2"}
    /\ enq = 2 /\ Len(queue) = 1

(* ---------------------- claims on the final flush ---------------------- *)

\* the documents that are still in the queue
Queued == {queue[i][1][2] : i \in 1..Len(queue)}

\* C16: a worker that has exited holds no pending document, and every document
\* that was taken off the queue and is in no worker's pending batch any more
\* has been POSTed at least once, also when the worker was cancelled in the
\* middle of a flush.
C16_FinalFlushBeforeExit ==
    /\ \A w \in Live : wpc[w] = "done" => pending[w] = <<>>
    /\ \A d \in 1..enq :
          (d \notin Queued /\ \A w \in Live : d \notin DocsOf(pending[w])) =>
              docPosts[d] >= 1

\* a worker was cancelled in the middle of a flush, POSTed its batch again in
\* its final flush, and has exited
C16_Witness ==
    \E w \in Live, d \in DocIds :
        wpc[w] = "done" /\ wfinal[w] /\ docPosts[d] >= 2 /\ docAnswer[d] # "none"

(* ----------------------- claims on the normalizer ---------------------- *)

\* C17: for every frame that decodes to a JSON object, whatever the types of
\* the fields it reads, the normalizer returns a document and does not raise.
C17_NormalizerNeverRaises ==
    (ws_pc = "handle" /\ frame.parses /\ IsObj(frame.value)) =>
        ~HandleEventResult(PayloadOf(frame), channel_id).raised

\* the document that was enqueued last
LastDoc(q) == q[Len(q)][2][3]

C19_ForwardedWhateverTheClass ==
    cls_result.forwarded # "none" => cls_result.forwarded = "true"

(* ------------------ claims on the resolution of the topics ------------- *)

\* the topics file holds a list of topic names, none of them blank
FileYields ==
    /\ IsObj(tp_in.file) /\ "topics" \in DOMAIN tp_in.file[2]
    /\ tp_in.file[2]["topics"][1] = "list"
    /\ tp_in.file[2]["topics"][2] # <<>>
    /\ \A i \in 1..Len(tp_in.file[2]["topics"][2]) :
          /\ IsStr(tp_in.file[2]["topics"][2][i])
          /\ Strip(tp_in.file[2]["topics"][2][i][2]) = tp_in.file[2]["topics"][2][i][2]
          /\ tp_in.file[2]["topics"][2][i][2] # <<>>

\* the topics file is absent, cannot be read, or holds no list or an empty one
FileYieldsNothing ==
    \/ ~IsObj(tp_in.file)
    \/ "topics" \notin DOMAIN tp_in.file[2]
    \/ tp_in.file[2]["topics"][1] # "list"
    \/ tp_in.file[2]["topics"][2] = <<>>

\* the topics of the discovery answer whose id holds the keyword
DiscoveryYield ==
    IF tp_in.discovery[1] = "fails" \/ ~tp_in.auto_discover THEN <<>>
    ELSE LET hits == SelectSeq(tp_in.discovery[2],
                               LAMBDA t : Contains(Lower(t[2]["id"][2]), Keyword))
         IN  [i \in 1..Len(hits) |-> hits[i][2]["id"]]

\* C20: the topics of the file are used when it yields some; otherwise the
\* discovered topics when the discovery succeeds and yields some; otherwise
\* the predefined list, which in audiohook_collector.py holds
\* platform.integration.audiohook and platform.operations.audiohook; a file
\* that cannot be read and a discovery that fails fall through to the next
\* source, and some topic is always resolved.
C20_TopicPriority ==
    tp_out.done =>
        /\ tp_out.topics # <<>>
        /\ FileYields => tp_out.topics = tp_in.file[2]["topics"][2]
        /\ (FileYieldsNothing /\ DiscoveryYield # <<>>) => tp_out.topics = DiscoveryYield
        /\ (FileYieldsNothing /\ DiscoveryYield = <<>>) =>
              tp_out.topics = (IF tp_in.prog = "audiohook" THEN AUDIOHOOK_TOPICS
                               ELSE FALLBACK_TOPICS)
        /\ \E i, j \in 1..Len(AUDIOHOOK_TOPICS) :
              /\ AUDIOHOOK_TOPICS[i] = JStr(<<"p", "l", "a", "t", "f", "o", "r", "m", ".", "i", "n", "t", "e", "g", "r", "a", "t", "i", "o", "n", ".", "a", "u", "d", "i", "o", "h", "o", "o", "k">>)
              /\ AUDIOHOOK_TOPICS[j] = JStr(<<"p", "l", "a", "t", "f", "o", "r", "m", ".", "o", "p", "e", "r", "a", "t", "i", "o", "n", "s", ".", "a", "u", "d", "i", "o", "h", "o", "o", "k">>)

\* the file could not be read and the discovery failed: the predefined list
C20_Witness ==
    /\ tp_out.done /\ tp_in.prog = "audiohook"
    /\ tp_in.file = FileUnreadable /\ tp_in.discovery = DiscoveryFails
    /\ tp_out.topics = AUDIOHOOK_TOPICS

(* ------------------- claims on the remaining functions ---------------- *)

\* the service at rest, and an output file to rotate
InitRotation ==
    InitSink /\ InitRunner /\ InitFnIdle /\ InitTopicsIdle /\ InitRotate /\ InitStartIdle /\ InitAhIdle /\ part = "function"

\* rotate_file applied to an output file and its backups
SpecRotate == InitRotation /\ [][NextRotate]_vars

\* the backups that exist among the files
Backups(files) == {i \in Slots \ {0} : files[i] # 0}

\* the output file exists and has reached MAX_FILE_SIZE
Oversized == rf.before[0] # 0 /\ rf.size >= MAX_FILE_SIZE

\* every existing backup below BACKUP_COUNT has moved up by one
Shifted ==
    \A i \in Slots \ {0} :
        (i < rf.count /\ rf.before[i] # 0) => rf.after[i + 1] = rf.before[i]

\* C21 as stated: on a file that has reached MAX_FILE_SIZE, rotate_file leaves no file
\* at the original path and the former content at backup 1, every existing backup
\* shifted up by one, and at most BACKUP_COUNT backups; on a missing or smaller file
\* it changes nothing.
C21_RotationKeepsBackupCount ==
    rf.done =>
        IF Oversized
        THEN /\ rf.after[0] = 0
             /\ rf.after[1] = rf.before[0]
             /\ Shifted
             /\ Cardinality(Backups(rf.after)) <= rf.count
        ELSE rf.after = rf.before

\* C21, amended: what is stated holds when no filesystem operation fails, with at
\* most max(BACKUP_COUNT, 1) backups afterwards (one backup is kept when BACKUP_COUNT
\* is 0); when an operation fails the rotation stops with a warning, the output file
\* stays at its path and no backup beyond BACKUP_COUNT appears; on a missing or
\* smaller file nothing changes.
C21_RotationWithoutFailure ==
    rf.done =>
        /\ ~Oversized => rf.after = rf.before /\ ~rf.failed
        /\ (Oversized /\ ~rf.failed) =>
              /\ rf.after[0] = 0
              /\ rf.after[1] = rf.before[0]
              /\ Shifted
              /\ Cardinality(Backups(rf.after)) <= (IF rf.count >= 1 THEN rf.count ELSE 1)
        /\ (Oversized /\ rf.failed) =>
              /\ rf.after[0] = rf.before[0]
              /\ \A i \in Backups(rf.after) : i <= rf.count \/ i = 1
              /\ \A i \in Backups(rf.after) : \E j \in Backups(rf.before) :
                    rf.after[i] = rf.before[j]

\* a full set of backups is rotated: the oldest is discarded, the others move up
C21_Witness ==
    /\ rf.done /\ Oversized /\ ~rf.failed
    /\ rf.count >= 2
    /\ Backups(rf.before) = 1..rf.count
    /\ rf.before[rf.count] \notin {rf.after[i] : i \in Slots}

\* the service at rest, and a program to start
InitStartup ==
    InitSink /\ InitRunner /\ InitFnIdle /\ InitTopicsIdle /\ InitRotateIdle /\ InitStart /\ InitAhIdle /\ part = "function"

\* the startup of either program under any settings
SpecStart == InitStartup /\ [][NextStart]_vars

\* a setting that the program requires is empty
SettingMissing == \E s \in Required(st.prog) : s \notin st.set

\* C22: when a required credential or endpoint is missing, the startup fails before
\* any connection is attempted: no token request, no discovery call, no channel
\* creation, no subscription, no stream and no flush worker.
C22_MissingSettingFailsFirst ==
    SettingMissing => st.calls = {} /\ st.pc \in {"start", "failed"}

\* collector.py is started without ELASTIC_URL and the startup has failed
C22_Witness ==
    /\ st.prog = "collector"
    /\ st.set = Settings \ {"ELASTIC_URL"}
    /\ st.pc = "failed"

\* C23: the sink endpoint receives at most two POSTs for every batch, the first
\* attempt and one retry, in every interleaving, also when the shutdown cancellation
\* arrives during the first POST or during the retry sleep.
C23_AtMostTwoPosts == \A d \in 1..enq : docPosts[d] <= 2

\* C24: a first POST that returns a status outside {200, 201, 429, 500, 502, 503,
\* 504}, or that raises a transport exception, is terminal: a retry is under way only
\* after a transient status, and the step that receives such an answer adds one to
\* errors, leaves sent_docs alone, issues no POST, discards the batch and sends the
\* worker back to the queue (or, in the flush of the cancellation handler, to its end).
C24_TerminalFirstFailure ==
    /\ [](\A w \in Workers : wpc[w] \in {"sleep", "post2"} => wlast[w] = "transient")
    /\ [][\A w \in Workers :
            (/\ wpc[w] = "post1" /\ pending[w] # <<>> /\ pending'[w] = <<>>
             /\ docAnswer'[pending[w][1][2]] \in {"other_status", "exception"}) =>
                /\ errors' = errors + 1
                /\ sent_docs' = sent_docs
                /\ docPosts' = docPosts
                /\ wpc'[w] = IF wfinal[w] THEN "done" ELSE "wait"]_vars

\* one batch has ended on a non-retryable status and one on an exception, after one
\* POST each, and a worker is back at the queue
C24_Witness ==
    /\ \E d, e \in DocIds :
          /\ docAnswer[d] = "other_status" /\ docPosts[d] = 1
          /\ docAnswer[e] = "exception" /\ docPosts[e] = 1
    /\ errors = 2 /\ sent_docs = 0
    /\ \E w \in Live : wpc[w] = "wait" /\ pending[w] = <<>>

\* C25: for every POST of a batch that succeeds, on the first attempt or on the
\* retry, the body is inspected for the per-item error flag: without the flag
\* sent_docs grows by the batch's document count and errors is unchanged; with the
\* flag errors grows by one and sent_docs is unchanged.
C25_BodyInspectedOnEverySuccess ==
    [][\A w \in Workers :
          (pending[w] # <<>> /\ pending'[w] = <<>>) =>
              LET a == docAnswer'[pending[w][1][2]] IN
              /\ a \in {"ok", "retry_lt300"} =>
                    sent_docs' = sent_docs + NDocs(pending[w]) /\ errors' = errors
              /\ a \in {"ok_item_errors", "retry_ok_item_errors"} =>
                    sent_docs' = sent_docs /\ errors' = errors + 1]_vars

\* the third severity of a normalized document
S_INFO == <<"I", "N", "F", "O">>

\* C26: the severity field of every normalized document is one of ERROR, WARN, INFO.
C26_SeverityNormalized ==
    \A i \in 1..Len(queue) : queue[i][2][3].op.severity \in {S_ERROR, S_WARN, S_INFO}

\* either supervisor at its start: _ws_loop of collector.py or websocket_loop of
\* audiohook_collector.py
InitSupervisors ==
    /\ InitSink /\ InitRunner /\ InitFnIdle /\ InitTopicsIdle
    /\ InitRotateIdle /\ InitStartIdle /\ InitAh
    /\ part \in {"supervisor", "audiohook"}

NextSupervisors ==
    \/ part = "supervisor" /\ NextRunner
    \/ part = "audiohook" /\ NextAh

\* the run of one of the two supervisors
SpecSupervisors == InitSupervisors /\ [][NextSupervisors]_vars

\* C27: the topic set is selected once and never changes: every subscription sent
\* on a reconnect carries the topic set of the first subscription, whatever the
\* topics file or the discovery returns later in the run.
C27_TopicsNeverChange ==
    \A i \in 1..Len(ah.subs) : ah.subs[i] = ah.subs[1]

\* either bulk writer at its start: the sink of collector.py or the buffer of
\* audiohook_collector.py
InitBulk ==
    /\ InitSink /\ InitRunner /\ InitFnIdle /\ InitTopicsIdle
    /\ InitRotateIdle /\ InitStartIdle /\ InitAh
    /\ part \in {"sink", "audiohook"}

NextBulk ==
    \/ part = "sink" /\ NextSink
    \/ part = "audiohook" /\ NextAh

\* the run of one of the two bulk writers
SpecBulk == InitBulk /\ [][NextBulk]_vars

\* the lines are pairs: an action line, then the line of the document it belongs to
Pairs(lines) ==
    /\ Len(lines) % 2 = 0
    /\ \A i \in 1..Len(lines) :
          IF i % 2 = 1
          THEN lines[i][1] = "index"
          ELSE lines[i][1] = "doc" /\ lines[i][2] = lines[i - 1][2]

\* the lines of a body, each of them followed by one newline
LinesOf(body) == [i \in 1..(Len(body) \div 2) |-> body[2 * i - 1]]

\* a body of one pair at least, every line ended by one newline
BulkBody(body) ==
    /\ Len(body) % 2 = 0 /\ Len(body) >= 4
    /\ \A i \in 1..Len(body) : (body[i] = NL) <=> (i % 2 = 0)
    /\ Pairs(LinesOf(body))

\* C28: the body of every bulk request is a sequence of pairs, an action line
\* followed by the line of its document, ended by one trailing newline; a pending
\* batch always holds an even number of lines, and a batch is sent as one request:
\* the documents that are pending together have been POSTed the same number of
\* times, and the buffer of audiohook_collector.py never keeps BULK_SIZE events.
C28_BulkBodyIsPairs ==
    /\ \A w \in Workers :
          /\ Pairs(pending[w])
          /\ wpc[w] \in {"post1", "sleep", "post2"} => BulkBody(Ndjson(pending[w]))
          /\ \A d, e \in DocsOf(pending[w]) : docPosts[d] = docPosts[e]
    /\ ah.body # <<>> => BulkBody(ah.body)
    /\ Len(ah.elastic_buffer) < BULK_SIZE

\* a worker is POSTing a batch of two documents, or audiohook_collector.py has
\* POSTed a buffer of BULK_SIZE events
C28_Witness ==
    \/ part = "sink" /\ \E w \in Live : wpc[w] = "post1" /\ Len(pending[w]) = 4
    \/ part = "audiohook" /\ Len(ah.body) = 4 * BULK_SIZE

\* C29: within every batch a worker POSTs, the documents appear in the order in
\* which they were enqueued, for any number of workers: no line of a pending batch
\* belongs to a document enqueued before the document of an earlier line.
C29_BatchKeepsOrder ==
    \A w \in Workers :
        \A i, j \in 1..Len(pending[w]) : i < j => pending[w][i][2] <= pending[w][j][2]

\* with two workers running, one of them is POSTing both documents in one batch
C29_Witness ==
    /\ nworkers = 2
    /\ \E w \in Live : wpc[w] \in {"post1", "post2"} /\ DocsOf(pending[w]) = 1..MaxEnq

\* C30: whenever a stream is opened, the backoff delay is reset to its floor: while
\* the stream is open the delay is the floor, and the delay with which either
\* supervisor enters its sleep when an open stream ends, which is the delay it
\* sleeps, is the floor, however many failures preceded that stream.
C30_DelayResetWhenStreamOpens ==
    /\ [](ws_pc \in {"stream", "handle"} => backoff = RETRY_BASE_SLEEP)
    /\ [](ah.pc = "stream" => ah.reconnect_delay = RECONNECT_DELAY)
    /\ [][(ws_pc \in {"stream", "handle"} /\ ws_pc' = "sleep") =>
             backoff' = RETRY_BASE_SLEEP]_vars
    /\ [][(ah.pc = "stream" /\ ah'.pc = "sleep") =>
             ah'.reconnect_delay = RECONNECT_DELAY]_vars

\* a supervisor that has slept after a failure, and so grown its delay, is about to
\* sleep the floor again: a stream was opened since and has ended
C30_Witness ==
    \/ part = "supervisor" /\ ws_pc = "sleep" /\ sleeps >= 1 /\ backoff = RETRY_BASE_SLEEP
    \/ /\ part = "audiohook" /\ ah.pc = "sleep" /\ ah.sleeps >= 1
       /\ ah.reconnect_delay = RECONNECT_DELAY

(* ---------------------- claims on the whole service ------------------- *)

\* either supervisor at its start, or the reconnect delay under some configuration
\* of its floor and ceiling
InitReconnect ==
    /\ InitSink /\ InitRunner /\ InitTopicsIdle
    /\ InitRotateIdle /\ InitStartIdle /\ InitAh
    /\ \/ part = "function" /\ InitBackoff
       \/ part \in {"supervisor", "audiohook"} /\ InitFnIdle

NextReconnect ==
    \/ part = "supervisor" /\ NextRunner
    \/ part = "audiohook" /\ NextAh
    \/ part = "function" /\ NextBackoffStep

\* the attempts of either supervisor, and the delays they sleep
SpecReconnect == InitReconnect /\ [][NextReconnect]_vars

\* every attempt but the first follows exactly one sleep: when an attempt begins,
\* the supervisor has slept as often as it has attempted
OneSleepBetweenAttempts ==
    /\ [][attempts' = attempts + 1 => sleeps = attempts]_vars
    /\ [][ah'.attempts = ah.attempts + 1 => ah.sleeps = ah.attempts]_vars
    /\ [](ws_pc = "sleep" => backoff >= RETRY_BASE_SLEEP)
    /\ [](ah.pc = "sleep" => ah.reconnect_delay >= RECONNECT_DELAY)

\* C31 as stated: between any two consecutive attempts to open a stream there is
\* exactly one backoff sleep, and every delay slept is at least the floor.
C31_OneSleepOfAtLeastTheFloor ==
    /\ OneSleepBetweenAttempts
    /\ [](\A i \in 1..Len(bk_slept) : bk_slept[i] >= bk_floor)

\* C31, amended: between any two consecutive attempts there is exactly one backoff
\* sleep; the delay slept is at least the smaller of the floor and the ceiling, so
\* at least the floor whenever the floor does not exceed the ceiling.
C31_OneSleepOfAtLeastFloorOrCeiling ==
    /\ OneSleepBetweenAttempts
    /\ [](\A i \in 1..Len(bk_slept) : bk_slept[i] >= Min(bk_floor, bk_ceiling))
    /\ [](bk_floor <= bk_ceiling => \A i \in 1..Len(bk_slept) : bk_slept[i] >= bk_floor)

\* a supervisor has begun its second attempt, after one sleep
C31_Witness ==
    \/ part = "supervisor" /\ attempts = 2 /\ sleeps = 1
    \/ part = "audiohook" /\ ah.attempts = 2 /\ ah.sleeps = 1

\* the number of lines of document d among the lines
RECURSIVE SourceLines(_, _)
SourceLines(lines, d) ==
    IF lines = <<>> THEN 0
    ELSE (IF lines[1][1] = "doc" /\ lines[1][2] = d THEN 1 ELSE 0)
         + SourceLines(Tail(lines), d)

\* the number of pending batches and queue items that hold document d
RECURSIVE Holders(_, _)
Holders(d, w) ==
    IF w = 0 THEN Cardinality({i \in 1..Len(queue) : queue[i][2][2] = d})
    ELSE SourceLines(pending[w], d) + Holders(d, w - 1)

\* C32: with any number of workers, every enqueued document is in at most one
\* place, the queue or one worker's pending batch, and once only; a document that
\* is in neither has been POSTed; and the step that takes an item off the queue
\* appends it to the pending batch of exactly one worker.
C32_NoDuplicateNoLossAmongWorkers ==
    /\ [](\A d \in 1..enq :
             /\ Holders(d, BULK_CONCURRENCY) <= 1
             /\ Holders(d, BULK_CONCURRENCY) = 0 => docPosts[d] >= 1)
    /\ [][queue' # queue /\ enq' = enq =>
             /\ queue' = Tail(queue)
             /\ \E w \in Live :
                   /\ pending'[w] = pending[w] \o Head(queue)
                   /\ \A v \in Workers \ {w} : pending'[v] = pending[v]]_vars

\* two workers hold one of the two documents each
C32_Witness ==
    /\ nworkers = 2
    /\ DocsOf(pending[1]) # {} /\ DocsOf(pending[2]) # {}
    /\ DocsOf(pending[1]) \cup DocsOf(pending[2]) = 1..MaxEnq

\* a further call of enqueue once MaxEnq documents are in: one document more than
\* a batch may hold arrives
EnqueueMore ==
    /\ part = "overfull"
    /\ enq >= MaxEnq /\ enq <= BULK_MAX_DOCS
    /\ Put(HandleEventResult(PayloadOf(Frame_System), 1).doc)
    /\ UNCHANGED <<sink_stop, workerVars, notSinkVars>>

\* the sink at its start, to be fed more documents than one batch may hold
InitOverfull ==
    /\ InitSink /\ InitRunner /\ InitFnIdle /\ InitTopicsIdle /\ InitRestIdle
    /\ part = "overfull"

NextOverfull == NextSink \/ EnqueueMore

\* the delivery sink, fed more documents than one batch may hold
SpecOverfull == InitOverfull /\ [][NextOverfull]_vars

\* C33: a worker's pending batch never holds more than BULK_MAX_DOCS documents, so
\* no bulk request carries more, and a worker that is in a POST or between a POST
\* and its retry has a batch that is not empty.
C33_BatchWithinLimit ==
    \A w \in Workers :
        /\ NDocs(pending[w]) <= BULK_MAX_DOCS
        /\ wpc[w] \in {"post1", "sleep", "post2"} => NDocs(pending[w]) >= 1

\* a worker POSTs a full batch while a further document waits in the queue
C33_Witness ==
    /\ enq = BULK_MAX_DOCS + 1
    /\ queue # <<>>
    /\ \E w \in Live : wpc[w] = "post1" /\ NDocs(pending[w]) = BULK_MAX_DOCS

\* the documents whose batch has ended with an answer that flush() counts as delivered
Delivered ==
    {d \in 1..enq : docAnswer[d] \in {"ok", "retry_lt300", "retry_ok_item_errors"}}

\* C34: sent_docs never exceeds the number of documents enqueued: it is the number
\* of documents whose batch has ended counted as delivered, each of them counted
\* once, across retries, workers and a flush that the shutdown cancelled and the
\* final flush repeated.
C34_DeliveredCountedOnce ==
    /\ sent_docs <= enq
    /\ sent_docs = Cardinality(Delivered)

\* a batch whose first POST the shutdown cancelled has been POSTed again by the
\* final flush and counted
C34_Witness ==
    \E d \in Delivered :
        /\ docPosts[d] = 2 /\ docAnswer[d] = "ok"
        /\ sent_docs = NDocs(<<1, 2>>)
        /\ \E w \in Live : wfinal[w] /\ wpc[w] = "done"

\* either program from its start to the close of its client session; the stream of
\* collector.py carries no text frame here, the documents come from calls of enqueue
InitShutdown ==
    /\ InitSink /\ InitRunner /\ InitFnIdle /\ InitTopicsIdle
    /\ InitRotateIdle /\ InitStartIdle /\ InitAh
    /\ part \in {"collector", "audiohook"}

NextShutdown ==
    \/ part = "collector" /\ NextSink
    \/ part = "collector" /\ \E ok \in BOOLEAN : CreateChannel(ok)
    \/ part = "collector" /\ \E ok \in BOOLEAN : SubscribeTopics(ok)
    \/ part = "collector" /\ \E ok \in BOOLEAN : Connect(ok)
    \/ part = "collector" /\ StreamEnd
    \/ part = "collector" /\ SleepDone
    \/ part = "collector" /\ \E ok \in BOOLEAN : Recreate(ok)
    \/ part = "collector" /\ \E ok \in BOOLEAN : Resubscribe(ok)
    \/ part = "collector" /\ WsTaskDone
    \/ part = "collector" /\ SessionClose
    \/ part = "audiohook" /\ NextAh
    \/ part = "audiohook" /\ AhExit

SpecShutdown == InitShutdown /\ [][NextShutdown]_vars

\* the client session of each program has been closed
SessionClosed == IF part = "audiohook" THEN ah.pc = "closed" ELSE runner_pc = "closed"

\* a step issues a POST to the sink: a flush worker posts a batch, or
\* flush_to_elasticsearch posts the buffer
PostIssued ==
    \/ docPosts' # docPosts
    \/ ah'.body # ah.body

\* C35: the client session is closed only after the delivery has finished: in
\* collector.py every flush worker has completed the flush of its CancelledError
\* handler and holds no document, in audiohook_collector.py the buffer has been
\* flushed; and no step issues a POST once the session is closed.
C35_ClientClosedAfterDelivery ==
    /\ [](runner_pc = "closed" =>
             /\ sinkpc = "done"
             /\ \A w \in Live : wpc[w] = "done" /\ wfinal[w] /\ pending[w] = <<>>)
    /\ [](ah.pc = "closed" => ah.elastic_buffer = <<>>)
    /\ [][PostIssued => ~SessionClosed /\ ~SessionClosed']_vars

\* the session is closed after a final flush that has POSTed documents: a worker
\* of collector.py has repeated a cancelled POST, or audiohook_collector.py has
\* flushed the one event its buffer still held
C35_Witness ==
    /\ SessionClosed
    /\ \/ /\ part = "collector"
          /\ \E d \in 1..enq : docPosts[d] = 2 /\ docAnswer[d] = "ok"
       \/ /\ part = "audiohook"
          /\ ah.events = 1 /\ ah.body # <<>>

====
